---------------------------- MODULE Spec2Model ----------------------------
(***************************************************************************)
(* A model of the punytunes backend control plane: the StreamMagicManager  *)
(* actor with its WebSocketClient session tasks and discovery tasks, and   *)
(* the AmplifierManager actor with its HegelAmplifierHandler session       *)
(* tasks.  Managers, sessions and discovery tasks are processes that       *)
(* communicate over FIFO channels only.                                    *)
(*                                                                         *)
(* A manager handler is one action, split only where the handler awaits    *)
(* the join handle of a session task that has not finished yet (the        *)
(* manager is then in mgr_pc = "join" and no other handler runs).          *)
(*                                                                         *)
(* send_app_log! messages (EmitAppLog) touch only ui_ready and the log     *)
(* buffer and are not part of the channel traffic modelled here.           *)
(***************************************************************************)
EXTENDS Integers, Sequences, FiniteSets, TLC

VARIABLES
    mgr,          \* StreamMagicManager fields (a record, named as in the source)
    mgr_pc,       \* "init" | "select" | "join" | "ended": position of run()
    mgr_cont,     \* what the handler does after the awaited join completes
    handled,      \* the message the manager handled last (history, for the claims)
    inbox,        \* rx_channel of the StreamMagicManager
    sessions,     \* WebSocketClient tasks and their two channels, by slot
    hce_inflight, \* spawned send_manager_action!(HandleClientError) tasks yet to send
    discoveries,  \* discovery tasks, by slot
    store,        \* persisted state: last_connected_host
    ui_udns,      \* the UDNs of the devices the UI has been shown so far
    ui_budget,    \* UI commands still to come
    ui_inflight,  \* spawned send_manager_action! tasks of the commands, yet to send
    fault_budget, \* transport faults still to come
    env_budget,   \* text frames of the streamer and app logs still to come
    amp,          \* AmplifierManager fields
    amp_pc,       \* "init" | "select" | "join": position of run()
    amp_cont,     \* what the handler does after the awaited join completes
    amp_handled,  \* the message the AmplifierManager handled last (history)
    amp_inbox,    \* rx_channel of the AmplifierManager
    handlers,     \* HegelAmplifierHandler tasks and their channels, by slot
    amp_discoveries,  \* discover_amplifiers tasks, by slot
    amp_ui_budget,    \* UI commands for the amplifier still to come
    amp_fault_budget, \* faults of the amplifier connection still to come
    hegel_connection, \* a HegelConnection and the read arm of its handler, on their own
    codec             \* a value and what the Hegel codec makes of it

streamer_vars == <<mgr, mgr_pc, mgr_cont, handled, inbox, sessions, hce_inflight,
                   discoveries, store, ui_udns, ui_budget, ui_inflight, fault_budget,
                   env_budget>>
amp_vars == <<amp, amp_pc, amp_cont, amp_handled, amp_inbox, handlers,
              amp_discoveries, amp_ui_budget, amp_fault_budget>>
hegel_vars == <<hegel_connection, codec>>
vars == <<streamer_vars, amp_vars, hegel_vars>>

---------------------------------------------------------------------------
(* Bounds of the model *)

\* WebSocketClient tasks that can be alive (or still referenced) at once
MaxSessions == 2
\* Concurrent discovery tasks
MaxDiscoveries == 2
\* UI commands sent to the StreamMagicManager in one run
MaxUiActions == 1
\* UI commands sent to the StreamMagicManager in one run of RetestSpec
MaxRetestUiActions == 2
\* StreamerActions sent by the UI in one run of ActionSpec
MaxStreamerActions == 2
\* Texts a streamer sends in one run of CacheSpec
MaxFrames == 2
\* UI commands sent to the StreamMagicManager in one run of CacheSpec
MaxCacheUiActions == 1
\* App logs sent to the StreamMagicManager in one run of LogSpec
MaxAppLogs == 3
\* UI commands sent to the StreamMagicManager in one run of LogSpec
MaxLogUiActions == 2
\* Transport faults (failed connects, closes, read errors, lost pongs, failed
\* pings) in one run
MaxFaults == 1
\* HegelAmplifierHandler tasks that can be alive (or still referenced) at once
MaxHandlers == 2
\* Concurrent discover_amplifiers tasks
MaxAmpDiscoveries == 2
\* UI commands sent to the AmplifierManager in one run
MaxAmpUiActions == 2
\* Faults of the amplifier connection (failed connects, closes, read errors,
\* lost test replies and heartbeats, failed writes) in one run
MaxAmpFaults == 4
\* Wall-clock time that passes in one step of the clock, in ms: more than
\* the activation budget, less than which the backoff delays account for
TimeStep == 16000

(* Program constants *)

activation_timeout == 15000
base_delay == 100
max_delay == 1500
max_reconnect_attempts == 3

---------------------------------------------------------------------------
(* Values *)

Min(a, b) == IF a < b THEN a ELSE b

RECURSIVE Pow2(_)
Pow2(n) == IF n = 0 THEN 1 ELSE 2 * Pow2(n - 1)

NoHost == "none"
NoTime == -1

NoUrl == [scheme |-> "", host |-> "", path |-> ""]

\* format!("ws://{}:80/smoip", host)
StreamerUrl(host) == [scheme |-> "ws", host |-> host, path |-> "/smoip"]

\* the description.xml URL rupnp reports for a device
DescriptionUrl(host) == [scheme |-> "http", host |-> host, path |-> "/description.xml"]

host_from_url(url) == url.host

\* The streamers on the LAN, as discover_streamers builds them.
StreamMagicDevice(udn, host) ==
    [udn |-> udn, url |-> DescriptionUrl(host), is_activating |-> FALSE, is_active |-> FALSE]

NetworkDevices == {StreamMagicDevice("udn1", "h1"), StreamMagicDevice("udn2", "h2")}

NoDevice == [udn |-> "", url |-> NoUrl, is_activating |-> FALSE, is_active |-> FALSE]

\* WebSocketClientStatus
Disconnected(reason, consider_reconnecting) ==
    [state |-> "Disconnected", url |-> NoUrl, existing |-> FALSE,
     reason |-> reason, consider_reconnecting |-> consider_reconnecting]
Connecting(url) ==
    [state |-> "Connecting", url |-> url, existing |-> FALSE,
     reason |-> "", consider_reconnecting |-> FALSE]
Connected(url, existing) ==
    [state |-> "Connected", url |-> url, existing |-> existing,
     reason |-> "", consider_reconnecting |-> FALSE]
TestingConnection ==
    [state |-> "TestingConnection", url |-> NoUrl, existing |-> FALSE,
     reason |-> "", consider_reconnecting |-> FALSE]
DisconnectedDefault == Disconnected("", FALSE)

\* Channel messages between the manager and a WebSocketClient
\* (WSClientRxChannelMsg, WSClientTxChannelMsg)
WebSocketClientStatusMsg(status) ==
    [type |-> "status", status |-> status, action |-> "", path |-> "", params |-> ""]
DataMsg(path, params) ==
    [type |-> "data", status |-> DisconnectedDefault, action |-> "", path |-> path, params |-> params]
WebSocketClientActionMsg(action) ==
    [type |-> "action", status |-> DisconnectedDefault, action |-> action, path |-> "", params |-> ""]

\* StreamMagicManagerAction values in the inbox
Action(kind, udn, flag, device) == [kind |-> kind, udn |-> udn, flag |-> flag, device |-> device]
ActivateUdn(udn) == Action("ActivateUdn", udn, FALSE, NoDevice)
\* StreamMagicManagerChannelMsg::StreamerActionMsg, the other kind of message
\* of the inbox
StreamerActionMsg(streamer_action) ==
    [kind |-> "StreamerActionMsg", udn |-> "", flag |-> FALSE, device |-> NoDevice,
     streamer_action |-> streamer_action]
Deactivate == Action("Deactivate", "", FALSE, NoDevice)
Discover(activate) == Action("Discover", "", activate, NoDevice)
HandleClientError == Action("HandleClientError", "", FALSE, NoDevice)
ProcessDiscoveredDevice(device) == Action("ProcessDiscoveredDevice", "", FALSE, device)
SetIsDiscovering(b) == Action("SetIsDiscovering", "", b, NoDevice)
ShutDown == Action("ShutDown", "", FALSE, NoDevice)
StopWebSocketClient(remove) == Action("StopWebSocketClient", "", remove, NoDevice)
TestConnection == Action("TestConnection", "", FALSE, NoDevice)
OnUIReady == Action("OnUIReady", "", FALSE, NoDevice)
EmitAppLog(app_log) ==
    [kind |-> "EmitAppLog", udn |-> "", flag |-> FALSE, device |-> NoDevice,
     app_log |-> app_log]

Slots == 1..MaxSessions

FreeSession ==
    [phase |-> "free", status |-> DisconnectedDefault, url |-> NoUrl,
     rx |-> <<>>, tx |-> <<>>, result |-> "none"]

NoCont == [kind |-> "none", handle |-> 0, host |-> "", flag |-> FALSE]

NoDiscovery ==
    [running |-> FALSE, seen_udns |-> {}, activate_discovered_device |-> FALSE,
     activate_next |-> ""]

---------------------------------------------------------------------------
(* StreamMagicManager: state handling.  Each operator maps the manager     *)
(* record m to the one the function leaves behind.  activation_start is    *)
(* kept as the time elapsed since it (activating_duration), NoTime for     *)
(* None.                                                                   *)

StateMsg(m) ==
    [devices |-> m.devices, is_activating |-> m.is_activating,
     is_discovering |-> m.is_discovering,
     is_testing_connection |-> m.is_testing_connection,
     websocket_client_status |-> m.ws_client_status]

\* Every emission to the UI made while handling one message is logged in m.emitted.
emit_manager_state(m) == [m EXCEPT !.emitted = Append(@, StateMsg(m))]

on_state_changed(m) == emit_manager_state(m)

clear_devices(m) == on_state_changed([m EXCEPT !.devices = <<>>])

set_is_activating(m, is_activating) ==
    IF is_activating
    THEN on_state_changed(
            IF ~m.is_activating
            THEN [m EXCEPT !.activating_duration = 0, !.activation_attempts = 0,
                           !.is_activating = TRUE]
            ELSE m)
    ELSE on_state_changed(
            [m EXCEPT !.activating_duration = NoTime, !.activation_attempts = 0,
                      !.is_activating = FALSE])

set_is_discovering(m, is_discovering) ==
    on_state_changed([m EXCEPT !.is_discovering = is_discovering])

set_is_testing_connection(m, is_testing_connection) ==
    on_state_changed([m EXCEPT !.is_testing_connection = is_testing_connection])

set_websocket_client_status(m, status) ==
    on_state_changed([m EXCEPT !.ws_client_status = status])

reset_websocket_related_state(m) ==
    set_is_activating(
        set_is_testing_connection(
            set_websocket_client_status(m, DisconnectedDefault), FALSE), FALSE)

set_all_device_activation_false(m) ==
    emit_manager_state(
        [m EXCEPT !.devices =
            [i \in DOMAIN m.devices |->
                [m.devices[i] EXCEPT !.is_active = FALSE, !.is_activating = FALSE]]])

\* Indexes of the devices whose description URL has the given host
HostMatches(devices, host) ==
    {i \in DOMAIN devices : host_from_url(devices[i].url) = host}

FirstOf(S) == CHOOSE i \in S : \A j \in S : i <= j

\* Every device of the host, as a loop without the break would mark
DevicesToMarkAll(devices, host) == HostMatches(devices, host)

\* The devices a call of set_device_is_active_from_url marks: the first match only.
DevicesToMark(devices, host) ==
    IF HostMatches(devices, host) = {} THEN {} ELSE {FirstOf(HostMatches(devices, host))}

set_device_is_active_from_url(m, url) ==
    LET m1 == set_all_device_activation_false(m)
        marked == DevicesToMark(m1.devices, host_from_url(url))
        ds == [i \in DOMAIN m1.devices |->
                 IF i \in marked THEN [m1.devices[i] EXCEPT !.is_active = TRUE]
                 ELSE m1.devices[i]]
    IN  emit_manager_state(
            IF marked = {} THEN m1
            ELSE [m1 EXCEPT !.devices = ds,
                            !.last_active_device = ds[FirstOf(marked)]])

\* add_device without the re-marking of the connected device
add_device_push_only(m, device) ==
    on_state_changed([m EXCEPT !.devices = Append(@, device)])

add_device(m, device) ==
    LET m1 == [m EXCEPT !.devices = Append(@, device)]
    IN  on_state_changed(
            IF m1.ws_client_status.state = "Connected"
            THEN set_device_is_active_from_url(m1, m1.ws_client_status.url)
            ELSE m1)

---------------------------------------------------------------------------
(* StreamMagicManager: functions that also touch the session tasks, the    *)
(* discovery tasks or the persisted store.  They map a context             *)
(* c = [m, s, d, st, ok] (manager, sessions, discoveries, store, and       *)
(* whether the model had a slot for every task spawned) to the context     *)
(* the function leaves behind.                                             *)

\* Sender::send on the command channel of the current session: an error when
\* the receiving task has finished, queued otherwise.
SendToClient(c, msg) ==
    LET k == c.m.ws_client_send_channel
    IN  IF k = 0 \/ c.s[k].phase = "done"
        THEN [sent |-> FALSE, c |-> c]
        ELSE [sent |-> TRUE, c |-> [c EXCEPT !.s[k].rx = Append(@, msg)]]

send_shutdown_request_to_websocket_client(c) ==
    SendToClient(c, WebSocketClientActionMsg("ShutDown")).c

send_test_connection_request_to_websocket_client(c) ==
    LET c1 == [c EXCEPT !.m = set_is_testing_connection(c.m, TRUE)]
        r == SendToClient(c1, WebSocketClientActionMsg("TestConnection"))
    IN  IF r.sent THEN r.c
        ELSE [c1 EXCEPT !.m = set_is_testing_connection(c1.m, FALSE)]

send_websocket_message(c, path) == SendToClient(c, DataMsg(path, "")).c

\* The StreamerActions of the model
StreamerActions == {"Pause", "PowerOn"}

\* The text a StreamerAction is translated to: PlayControl::pause_msg(),
\* SystemPower::on_msg()
StreamerActionText(streamer_action) ==
    IF streamer_action = "Pause"
    THEN DataMsg("/zone/play_control", "action: pause")
    ELSE DataMsg("/system/power", "power: ON")

\* The StreamerActionMsg arm: send_websocket_message of the action's text
send_streamer_action(c, streamer_action) ==
    SendToClient(c, StreamerActionText(streamer_action)).c

\* The paths of the request_updates_msg() payloads, in the order sent
UpdatePaths ==
    << "/presets/list", "/queue/info", "/system/info", "/system/power",
       "/system/sources", "/zone/now_playing", "/zone/play_state",
       "/zone/play_state/position", "/zone/state" >>

RECURSIVE SendAll(_, _)
SendAll(c, paths) ==
    IF paths = <<>> THEN c
    ELSE SendAll(send_websocket_message(c, Head(paths)), Tail(paths))

\* The subscriptions without the first of them
register_for_all_but_presets(c) == SendAll(c, Tail(UpdatePaths))

register_for_streammagic_updates(c) == SendAll(c, UpdatePaths)

\* The paths of the payloads the manager keeps: one slot each
PayloadPaths ==
    {"/presets/list", "/queue/info", "/queue/list", "/system/info",
     "/system/power", "/system/sources", "/zone/now_playing",
     "/zone/play_state", "/zone/play_state/position", "/zone/state"}

\* None, the value of an empty slot
NoPayload == "None"

\* The params a streamer sends: "p1" and "p2" are what the payload type of
\* the path expects, "no data" lacks the data field, "bad" is wrong otherwise
FrameParams == {"p1", "p2", "no data", "bad"}

\* serde_json::from_str::<StreamMagicMessage>: a text without a path (or
\* another field of the envelope) is an error
EnvelopeOk(message) == message.path # ""

\* A decoder that takes whatever it is given
from_value_any(params) == [ok |-> TRUE, payload |-> params]

\* serde_json::from_value::<T>(message.params)
from_value(params) ==
    IF params \in {"p1", "p2"} THEN [ok |-> TRUE, payload |-> params]
    ELSE [ok |-> FALSE, payload |-> NoPayload]

\* Every other emission to the UI made while handling one message is logged
\* in m.emitted_events.
emit_app_message(m, event, payload) ==
    [m EXCEPT !.emitted_events = Append(@, [event |-> event, payload |-> payload])]

emit_streammagic_payload(m, path) == emit_app_message(m, path, m.payloads[path])

\* The payloads emit_streammagic_payloads emits, in its order
EmittedPayloadPaths ==
    <<"/queue/list", "/presets/list", "/system/info", "/system/power",
      "/system/sources", "/zone/now_playing", "/zone/play_state",
      "/zone/play_state/position", "/zone/state">>

RECURSIVE EmitPayloads(_, _)
EmitPayloads(m, paths) ==
    IF paths = <<>> THEN m
    ELSE EmitPayloads(emit_streammagic_payload(m, Head(paths)), Tail(paths))

emit_streammagic_payloads(m) == EmitPayloads(m, EmittedPayloadPaths)

emit_app_log_with_target(m, app_log) == emit_app_message(m, "AppLog", app_log)

\* The set_... function of the path's slot; queue_info is not emitted
set_payload(m, path, payload) ==
    LET m1 == [m EXCEPT !.payloads[path] = payload]
    IN  IF path = "/queue/info" THEN m1 ELSE emit_streammagic_payload(m1, path)

\* An EmitAppLog arm that emits every log at once
emit_app_log_at_once(m, app_log) == emit_app_log_with_target(m, app_log)

\* The EmitAppLog arm keeps the log until the UI is ready
buffer_app_log(m, app_log) ==
    IF m.ui_ready THEN emit_app_log_with_target(m, app_log)
    ELSE [m EXCEPT !.buffered_app_logs = Append(@, app_log)]

RECURSIVE EmitAppLogs(_, _)
EmitAppLogs(m, app_logs) ==
    IF app_logs = <<>> THEN m
    ELSE EmitAppLogs(emit_app_log_with_target(m, Head(app_logs)), Tail(app_logs))

\* The OnUIReady arm
on_ui_ready(m) ==
    LET m1 == emit_streammagic_payloads(emit_manager_state([m EXCEPT !.ui_ready = TRUE]))
    IN  [EmitAppLogs(m1, m1.buffered_app_logs) EXCEPT !.buffered_app_logs = <<>>]

process_streammagic_message(c, message) ==
    IF ~EnvelopeOk(message) THEN c
    ELSE IF message.path \in PayloadPaths
    THEN IF from_value(message.params).ok
         THEN LET c1 == [c EXCEPT !.m = set_payload(c.m, message.path,
                                            from_value(message.params).payload)]
              IN  IF message.path = "/queue/info"
                  THEN send_websocket_message(c1, "/queue/list")
                  ELSE c1
         ELSE c
    ELSE c

\* stop_websocket_client up to the await of the join handle: the handle is
\* taken and the ShutDown request sent.  The handle to await is c.m's old one.
stop_websocket_client(c) ==
    IF c.m.ws_client_join_handle = 0 THEN c
    ELSE send_shutdown_request_to_websocket_client(
            [c EXCEPT !.m.ws_client_join_handle = 0])

\* A slot for a new task: a free one, or one whose task has finished and whose
\* channels the manager replaces now.
NewSlots(s) == {k \in Slots : s[k].phase \in {"free", "done"}}

\* start_websocket_client after its stop_websocket_client()
spawn_websocket_client(c, host) ==
    IF NewSlots(c.s) = {} THEN [c EXCEPT !.ok = FALSE]
    ELSE LET k == FirstOf(NewSlots(c.s))
         IN  [c EXCEPT !.m.ws_client_send_channel = k,
                       !.m.ws_client_receive_channel = k,
                       !.m.ws_client_join_handle = k,
                       !.s[k] = [phase |-> "spawned",
                                 status |-> DisconnectedDefault,
                                 url |-> StreamerUrl(host),
                                 rx |-> <<>>, tx |-> <<>>, result |-> "none"]]

\* Time moves on by d while an activation is under way.  Beyond the budget the
\* exact value no longer matters to any comparison, so it is kept at budget + 1.
Elapse(t, d) == IF t = NoTime THEN NoTime ELSE Min(activation_timeout + 1, t + d)

\* The exponential backoff of activate_device, in ms
BackoffDelay(activation_attempts) ==
    IF activation_attempts = 0 THEN 0
    ELSE Min(max_delay, base_delay * Pow2(activation_attempts))

\* Indexes of the devices with the given UDN
UdnMatches(devices, udn) == {i \in DOMAIN devices : devices[i].udn = udn}

\* activate_device up to the await of the old session's join handle inside
\* start_websocket_client.  start says whether a session is to be started for
\* host; when it is not, activate_device has returned.
activate_device_begin(c, udn) ==
    LET m1 == set_is_activating(c.m, TRUE)
    IN  IF m1.activating_duration > activation_timeout
        THEN [c |-> [c EXCEPT !.m = set_is_activating(m1, FALSE)],
              start |-> FALSE, host |-> ""]
        ELSE
        LET delay == BackoffDelay(m1.activation_attempts)
            m2 == [m1 EXCEPT !.activation_attempts = @ + 1,
                             !.activating_duration = Elapse(@, delay)]
            m3 == set_all_device_activation_false(m2)
            matching == UdnMatches(m3.devices, udn)
        IN  IF matching = {}
            THEN [c |-> [c EXCEPT !.m = emit_manager_state(m3)],
                  start |-> FALSE, host |-> ""]
            ELSE
            LET i == FirstOf(matching)
                m4 == on_state_changed([m3 EXCEPT !.devices[i].is_activating = TRUE])
            IN  [c |-> stop_websocket_client([c EXCEPT !.m = m4]),
                 start |-> TRUE, host |-> host_from_url(m4.devices[i].url)]

\* activate_device from the spawn of the new session to its end
activate_device_end(c, host) ==
    LET c1 == spawn_websocket_client(c, host)
    IN  [c1 EXCEPT !.m = emit_manager_state(c1.m)]

\* An activate_device that returns at once
activate_nothing(c, udn) == c

\* activate_device where no join handle is held, so that nothing is awaited
activate_device(c, udn) ==
    LET r == activate_device_begin(c, udn)
    IN  IF r.start THEN activate_device_end(r.c, r.host) ELSE r.c

\* deactivate_active_device up to the await of the join handle
deactivate_active_device_begin(c) ==
    stop_websocket_client([c EXCEPT !.m = set_all_device_activation_false(c.m)])

FreeDiscoveries(d) == {k \in DOMAIN d : ~d[k].running}

do_discovery(c, activate_discovered_device) ==
    LET m1 == clear_devices(set_is_discovering(c.m, TRUE))
    IN  IF FreeDiscoveries(c.d) = {} THEN [c EXCEPT !.ok = FALSE]
        ELSE [c EXCEPT !.m = m1,
                       !.d[FirstOf(FreeDiscoveries(c.d))] =
                           [running |-> TRUE, seen_udns |-> {},
                            activate_discovered_device |-> activate_discovered_device,
                            activate_next |-> ""]]

initialize(c) ==
    IF c.st # NoHost
    THEN do_discovery(
            spawn_websocket_client([c EXCEPT !.m = set_is_activating(c.m, TRUE)], c.st),
            FALSE)
    ELSE do_discovery(c, TRUE)

\* The arm of run() for a Connected status, before set_websocket_client_status
OnConnected(c, status) ==
    LET c1 == IF c.m.is_testing_connection
              THEN [c EXCEPT !.m = set_is_testing_connection(c.m, FALSE)]
              ELSE c
        c2 == IF ~status.existing
              THEN LET c3 == send_websocket_message(
                                register_for_streammagic_updates(
                                    [c1 EXCEPT !.st = host_from_url(status.url)]),
                                "/queue/list")
                   IN  [c3 EXCEPT !.m = set_device_is_active_from_url(c3.m, status.url)]
              ELSE c1
    IN  [c2 EXCEPT !.m = set_is_activating(c2.m, FALSE)]

\* The arm of run() for a Disconnected status, before set_websocket_client_status
OnDisconnected(c, status) ==
    LET m1 == [set_all_device_activation_false(c.m) EXCEPT
                    !.ws_client_join_handle = 0,
                    !.ws_client_send_channel = 0,
                    !.ws_client_receive_channel = 0]
        c1 == [c EXCEPT !.m = m1]
    IN  IF m1.is_testing_connection
        THEN LET c2 == [c1 EXCEPT !.m = set_is_testing_connection(m1, FALSE)]
             IN  IF c2.m.last_active_device # NoDevice
                 THEN activate_device(c2, c2.m.last_active_device.udn)
                 ELSE c2
        ELSE IF status.consider_reconnecting
        THEN IF m1.last_active_device # NoDevice
             THEN activate_device(c1, m1.last_active_device.udn)
             ELSE [c1 EXCEPT !.m = set_is_activating(m1, FALSE)]
        ELSE [c1 EXCEPT !.m = set_is_activating(m1, FALSE)]

---------------------------------------------------------------------------
(* The StreamMagicManager actor: initialize() and one action for every     *)
(* arm of the select! in run().                                            *)

\* The state a handler starts from; the log of emissions is per message.
Ctx == [m |-> [mgr EXCEPT !.emitted = <<>>, !.emitted_events = <<>>], s |-> sessions, d |-> discoveries,
        st |-> store, ok |-> TRUE]

\* The same for the part of a handler that follows an awaited join
CtxResumed == [m |-> mgr, s |-> sessions, d |-> discoveries, st |-> store, ok |-> TRUE]

\* What is left of the session tasks once dropped values are forgotten: a
\* finished task nobody holds a handle or channel of is gone, a finished task
\* has dropped its receiver, and what was sent to a dropped receiver is lost.
Collect(m, s, awaited) ==
    [k \in Slots |->
        IF s[k].phase = "done"
           /\ k \notin {m.ws_client_join_handle, m.ws_client_send_channel,
                        m.ws_client_receive_channel, awaited}
        THEN FreeSession
        ELSE [s[k] EXCEPT
                !.rx = IF s[k].phase = "done" THEN <<>> ELSE @,
                !.tx = IF m.ws_client_receive_channel = k THEN @ ELSE <<>>]]

\* A join handle that is let go instead of awaited
JoinedAtOnce(s, handle) == TRUE

\* JoinHandle.await returns at once when the task has finished (or none is held)
Joined(s, handle) == handle = 0 \/ s[handle].phase = "done"

NoMsg == [src |-> "none", kind |-> "", status |-> DisconnectedDefault,
          deactivated |-> FALSE, last_active_device |-> NoDevice]

\* The manager's session is connected, the manager knows it, and no test is
\* in progress
ConnectedUntested ==
    /\ mgr.ws_client_status.state = "Connected"
    /\ ~mgr.is_testing_connection
    /\ mgr.ws_client_join_handle # 0
    /\ mgr.ws_client_send_channel = mgr.ws_client_join_handle
    /\ mgr.ws_client_receive_channel = mgr.ws_client_join_handle
    /\ sessions[mgr.ws_client_join_handle].phase = "running"
    /\ sessions[mgr.ws_client_join_handle].status.state = "Connected"
    /\ sessions[mgr.ws_client_join_handle].tx = <<>>

\* The messages that ask the manager for a session or for its end
ExplicitRequests ==
    {"ActivateUdn", "Discover", "ShutDown", "StopWebSocketClient", "TestConnection"}

\* deactivated (history): a Deactivate was handled while ConnectedUntested and
\* no explicit request has been handled since; last_active_device is the
\* manager's at that Deactivate.
InboxMsg(action) ==
    [src |-> "inbox", kind |-> action.kind, status |-> DisconnectedDefault,
     deactivated |-> CASE action.kind = "Deactivate" -> ConnectedUntested
                       [] action.kind \in ExplicitRequests -> FALSE
                       [] OTHER -> handled.deactivated,
     last_active_device |->
        CASE action.kind = "Deactivate" ->
                IF ConnectedUntested THEN mgr.last_active_device ELSE NoDevice
          [] action.kind \in ExplicitRequests -> NoDevice
          [] OTHER -> handled.last_active_device]

ClientMsg(status) ==
    [src |-> "client", kind |-> status.state, status |-> status,
     deactivated |-> handled.deactivated,
     last_active_device |-> handled.last_active_device]

\* The UDNs of the devices in the given emissions
EmittedUdns(emitted) ==
    UNION {{emitted[i].devices[j].udn : j \in DOMAIN emitted[i].devices} :
              i \in DOMAIN emitted}

\* The handler has reached its end (cont.kind = "none") or an await of a join
\* handle; res = [c, cont].
Leave(res) ==
    /\ res.c.ok
    /\ mgr' = res.c.m
    /\ sessions' = Collect(res.c.m, res.c.s, res.cont.handle)
    /\ discoveries' = res.c.d
    /\ store' = res.c.st
    /\ ui_udns' = ui_udns \cup EmittedUdns(res.c.m.emitted)
    /\ mgr_cont' = res.cont
    /\ mgr_pc' = CASE res.cont.kind = "none" -> "select"
                    [] res.cont.kind = "ended" -> "ended"
                    [] OTHER -> "join"
    /\ UNCHANGED <<hce_inflight, ui_budget, ui_inflight, fault_budget, env_budget, amp_vars, hegel_vars>>

Done(c) == [c |-> c, cont |-> NoCont]

\* run() has left its loop
Ended(c) == [c |-> c, cont |-> [NoCont EXCEPT !.kind = "ended"]]

\* A handler that stops the session and goes on as cont.kind says
Await(c0, c, kind, host, flag) ==
    [c |-> c, cont |-> [kind |-> kind, handle |-> c0.m.ws_client_join_handle,
                        host |-> host, flag |-> flag]]

\* activate_device in an arm of the inbox, where its join may have to be awaited
Activate(c, udn) ==
    LET r == activate_device_begin(c, udn)
    IN  IF ~r.start THEN Done(r.c)
        ELSE IF Joined(c.s, c.m.ws_client_join_handle)
        THEN Done(activate_device_end(r.c, r.host))
        ELSE Await(c, r.c, "activate", r.host, FALSE)

Receive(kind) ==
    /\ mgr_pc = "select"
    /\ inbox # <<>>
    /\ Head(inbox).kind = kind
    /\ inbox' = Tail(inbox)
    /\ handled' = InboxMsg(Head(inbox))

MgrInitialize ==
    /\ mgr_pc = "init"
    /\ Leave(Done(initialize(Ctx)))
    /\ handled' = [NoMsg EXCEPT !.src = "init"]
    /\ UNCHANGED inbox

MgrActivateUdn ==
    /\ Receive("ActivateUdn")
    /\ Leave(Activate(Ctx, Head(inbox).udn))

MgrDeactivate ==
    /\ Receive("Deactivate")
    /\ LET c == deactivate_active_device_begin(Ctx)
       IN  IF Joined(sessions, mgr.ws_client_join_handle)
           THEN Leave(Done([c EXCEPT !.m = emit_manager_state(c.m)]))
           ELSE Leave(Await(Ctx, c, "deactivate", "", FALSE))

MgrDiscover ==
    /\ Receive("Discover")
    /\ Leave(Done(do_discovery(Ctx, Head(inbox).flag)))

MgrHandleClientError ==
    /\ Receive("HandleClientError")
    /\ LET c1 == IF mgr.is_testing_connection
                 THEN [Ctx EXCEPT !.m = set_is_testing_connection(Ctx.m, FALSE)]
                 ELSE Ctx
       IN  IF mgr.last_active_device # NoDevice
           THEN Leave(Activate(c1, mgr.last_active_device.udn))
           ELSE Leave(Done(c1))

MgrProcessDiscoveredDevice ==
    /\ Receive("ProcessDiscoveredDevice")
    /\ Leave(Done([Ctx EXCEPT !.m = add_device(Ctx.m, Head(inbox).device)]))

MgrSetIsDiscovering ==
    /\ Receive("SetIsDiscovering")
    /\ Leave(Done([Ctx EXCEPT !.m = set_is_discovering(Ctx.m, Head(inbox).flag)]))

MgrShutDown ==
    /\ Receive("ShutDown")
    /\ LET c == stop_websocket_client(Ctx)
       IN  IF Joined(sessions, mgr.ws_client_join_handle)
           THEN Leave(Ended(c))
           ELSE Leave(Await(Ctx, c, "shutdown", "", FALSE))

\* StopWebSocketClient after its stop_websocket_client()
stop_websocket_client_requested(c, remove_from_persisted_state) ==
    [c EXCEPT !.m = reset_websocket_related_state(c.m),
              !.st = IF remove_from_persisted_state THEN NoHost ELSE @]

MgrStopWebSocketClient ==
    /\ Receive("StopWebSocketClient")
    /\ LET c == stop_websocket_client(Ctx)
       IN  IF Joined(sessions, mgr.ws_client_join_handle)
           THEN Leave(Done(stop_websocket_client_requested(c, Head(inbox).flag)))
           ELSE Leave(Await(Ctx, c, "stop", "", Head(inbox).flag))

MgrEmitAppLog ==
    /\ Receive("EmitAppLog")
    /\ Leave(Done([Ctx EXCEPT !.m = buffer_app_log(Ctx.m, Head(inbox).app_log)]))

MgrOnUIReady ==
    /\ Receive("OnUIReady")
    /\ Leave(Done([Ctx EXCEPT !.m = on_ui_ready(Ctx.m)]))

MgrStreamerAction ==
    /\ Receive("StreamerActionMsg")
    /\ Leave(Done(send_streamer_action(Ctx, Head(inbox).streamer_action)))

MgrTestConnection ==
    /\ Receive("TestConnection")
    /\ IF mgr.ws_client_status.state = "Connected"
       THEN Leave(Done(send_test_connection_request_to_websocket_client(Ctx)))
       ELSE IF mgr.last_active_device # NoDevice
       THEN Leave(Activate(Ctx, mgr.last_active_device.udn))
       ELSE Leave(Done(Ctx))

\* The awaited session task has finished: the handler runs to its end.
MgrJoinDone ==
    /\ mgr_pc = "join"
    /\ sessions[mgr_cont.handle].phase = "done"
    /\ CASE mgr_cont.kind = "activate" ->
                Leave(Done(activate_device_end(CtxResumed, mgr_cont.host)))
         [] mgr_cont.kind = "deactivate" ->
                Leave(Done([CtxResumed EXCEPT !.m = emit_manager_state(mgr)]))
         [] mgr_cont.kind = "stop" ->
                Leave(Done(stop_websocket_client_requested(CtxResumed, mgr_cont.flag)))
         [] mgr_cont.kind = "shutdown" ->
                Leave(Ended(CtxResumed))
    /\ UNCHANGED <<inbox, handled>>

\* The next message of the current session's channel
ClientHas(state) ==
    /\ mgr_pc = "select"
    /\ mgr.ws_client_receive_channel # 0
    /\ sessions[mgr.ws_client_receive_channel].tx # <<>>
    /\ Head(sessions[mgr.ws_client_receive_channel].tx).type = "status"
    /\ Head(sessions[mgr.ws_client_receive_channel].tx).status.state = state

ClientStatus == Head(sessions[mgr.ws_client_receive_channel].tx).status

\* The context of a handler that has taken the message off the session's channel
CtxClient == [Ctx EXCEPT !.s[mgr.ws_client_receive_channel].tx = Tail(@)]

MgrClientStatus(state, c) ==
    /\ ClientHas(state)
    /\ Leave(Done([c EXCEPT !.m = set_websocket_client_status(c.m, ClientStatus)]))
    /\ handled' = ClientMsg(ClientStatus)
    /\ UNCHANGED inbox

MgrClientConnected == MgrClientStatus("Connected", OnConnected(CtxClient, ClientStatus))

MgrClientDisconnected ==
    MgrClientStatus("Disconnected", OnDisconnected(CtxClient, ClientStatus))

MgrClientConnecting == MgrClientStatus("Connecting", CtxClient)

MgrClientTestingConnection == MgrClientStatus("TestingConnection", CtxClient)

\* The session has passed on a text of the streamer
MgrClientDataMsg ==
    /\ mgr_pc = "select"
    /\ mgr.ws_client_receive_channel # 0
    /\ sessions[mgr.ws_client_receive_channel].tx # <<>>
    /\ Head(sessions[mgr.ws_client_receive_channel].tx).type = "data"
    /\ Leave(Done(process_streammagic_message(CtxClient,
            Head(sessions[mgr.ws_client_receive_channel].tx))))
    /\ handled' = [ClientMsg(DisconnectedDefault) EXCEPT !.kind = "DataMsg"]
    /\ UNCHANGED inbox

---------------------------------------------------------------------------
(* A WebSocketClient task: connect(), then one action for every arm of the *)
(* select! in run(), then the end of the spawned task.                     *)

\* set_status: the send fails (and is only logged) once the manager has
\* dropped the receiver.
set_status(s, k, status) ==
    [s EXCEPT ![k].status = status,
              ![k].tx = IF mgr.ws_client_receive_channel = k
                        THEN Append(@, WebSocketClientStatusMsg(status))
                        ELSE @]

\* A run() that goes on after its result is known
ReturnUnheeded(s, k, result) == [s EXCEPT ![k].result = result]

\* run() returns result
Return(s, k, result) == [s EXCEPT ![k].phase = "returned", ![k].result = result]

SessStep(s) ==
    /\ sessions' = Collect(mgr, s, mgr_cont.handle)
    /\ UNCHANGED <<mgr, mgr_pc, mgr_cont, handled, inbox, discoveries, store,
                   ui_udns, ui_budget, ui_inflight, amp_vars, hegel_vars>>

\* The step is not a transport fault
NoFault == UNCHANGED <<fault_budget, env_budget>>

\* The step is a transport fault
Fault ==
    /\ fault_budget > 0
    /\ fault_budget' = fault_budget - 1
    /\ UNCHANGED env_budget

\* connect(): the Connecting status
SessConnecting(k) ==
    /\ sessions[k].phase = "spawned"
    /\ SessStep([set_status(sessions, k, Connecting(sessions[k].url))
                    EXCEPT ![k].phase = "connecting"])
    /\ NoFault
    /\ UNCHANGED hce_inflight

\* connect(): Ok(Ok(result))
SessConnectOk(k) ==
    /\ sessions[k].phase = "connecting"
    /\ SessStep([set_status(sessions, k, Connected(sessions[k].url, FALSE))
                    EXCEPT ![k].phase = "running"])
    /\ NoFault
    /\ UNCHANGED hce_inflight

\* connect(): Ok(Err(e)), a connection error, or Err(_), the 2 s timeout
SessConnectErr(k) ==
    /\ sessions[k].phase = "connecting"
    /\ SessStep(Return(sessions, k, "err"))
    /\ Fault
    /\ UNCHANGED hce_inflight

SessReceives(k, type, action) ==
    /\ sessions[k].phase = "running"
    /\ sessions[k].rx # <<>>
    /\ Head(sessions[k].rx).type = type
    /\ Head(sessions[k].rx).action = action

Received(k) == [sessions EXCEPT ![k].rx = Tail(@)]

RECURSIVE AfterData(_)
AfterData(rx) ==
    IF rx # <<>> /\ Head(rx).type = "data" THEN AfterData(Tail(rx)) ELSE rx

\* DataMsg: the text is written to the socket.  Nothing else of the model
\* depends on it, so the texts at the head of the channel go out in one step.
SessDataMsg(k) ==
    /\ SessReceives(k, "data", "")
    /\ SessStep([sessions EXCEPT ![k].rx = AfterData(@)])
    /\ NoFault
    /\ UNCHANGED hce_inflight

SessShutDown(k) ==
    /\ SessReceives(k, "action", "ShutDown")
    /\ SessStep(Return(set_status(Received(k), k, Disconnected("", FALSE)), k, "ok"))
    /\ NoFault
    /\ UNCHANGED hce_inflight

\* TestConnection; ping_sent is whether ws_write.send(Ping) returned Ok
SessTestConnection(k, ping_sent) ==
    /\ SessReceives(k, "action", "TestConnection")
    /\ IF sessions[k].status.state = "Connected"
       THEN IF ping_sent
            THEN SessStep(set_status(Received(k), k, TestingConnection))
            ELSE SessStep(Received(k))
       ELSE /\ ping_sent
            /\ SessStep(set_status(Received(k), k, sessions[k].status))
    /\ IF sessions[k].status.state = "Connected" /\ ~ping_sent THEN Fault ELSE NoFault
    /\ UNCHANGED hce_inflight

\* Message::Pong while testing
SessPong(k) ==
    /\ sessions[k].phase = "running"
    /\ sessions[k].status.state = "TestingConnection"
    /\ SessStep(set_status(sessions, k, Connected(sessions[k].url, TRUE)))
    /\ NoFault
    /\ UNCHANGED hce_inflight

\* The texts a streamer sends: one that is no StreamMagicMessage, and for
\* some paths one with each of the params
DeviceFrames ==
    {DataMsg("", "")}
    \cup {DataMsg(path, params) :
            path \in {"/queue/info", "/zone/play_state/position", "/zone/state",
                      "/zone/play_control", "/zone/other"},
            params \in FrameParams}

\* Message::Text: the text is passed on to the manager; the send fails (and is
\* only logged) once the manager has dropped the receiver.
SessText(k, frame) ==
    /\ sessions[k].phase = "running"
    /\ env_budget.frames > 0
    /\ env_budget' = [env_budget EXCEPT !.frames = @ - 1]
    /\ SessStep([sessions EXCEPT ![k].tx = IF mgr.ws_client_receive_channel = k
                                           THEN Append(@, frame) ELSE @])
    /\ UNCHANGED <<fault_budget, hce_inflight>>

\* Message::Close
SessClose(k) ==
    /\ sessions[k].phase = "running"
    /\ SessStep(Return(set_status(sessions, k,
                    Disconnected("WebSocket connection closed by server", TRUE)),
                k, "err"))
    /\ Fault
    /\ UNCHANGED hce_inflight

\* ws_read.next() is an Err
SessReadErr(k) ==
    /\ sessions[k].phase = "running"
    /\ SessStep(Return(set_status(sessions, k,
                    Disconnected(
                        IF sessions[k].status.state = "TestingConnection"
                        THEN "WebSocketClient test failed (message read error)"
                        ELSE "Could not read next item from WebSocket server stream",
                        TRUE)),
                k, "err"))
    /\ Fault
    /\ UNCHANGED hce_inflight

\* interval.tick() more than test_connection_pong_timeout_ms after the ping
SessPongTimeout(k) ==
    /\ sessions[k].phase = "running"
    /\ sessions[k].status.state = "TestingConnection"
    /\ SessStep(Return(set_status(sessions, k,
                    Disconnected("WebSocketClient test failed (pong timeout)", TRUE)),
                k, "err"))
    /\ Fault
    /\ UNCHANGED hce_inflight

\* The task spawned by start_websocket_client ends: on an Err of run() it has
\* spawned the send of HandleClientError.
SessEnd(k) ==
    /\ sessions[k].phase = "returned"
    /\ hce_inflight' = IF sessions[k].result = "err" THEN hce_inflight + 1
                       ELSE hce_inflight
    /\ NoFault
    /\ SessStep([sessions EXCEPT ![k].phase = "done",
                                 ![k].status = DisconnectedDefault,
                                 ![k].url = NoUrl])

\* A send to the manager's rx_channel.  A message sent while another waits in
\* the channel is received as if it were sent once the channel is empty again,
\* and no sender waits for, or learns of, its receipt: so the sends are taken
\* at such moments only.  Once run() has returned the message is lost.
Send(action) ==
    /\ inbox = <<>>
    /\ inbox' = IF mgr_pc = "ended" THEN inbox ELSE <<action>>

\* A task spawned by send_manager_action! sends its HandleClientError
SendHandleClientError ==
    /\ hce_inflight > 0
    /\ hce_inflight' = hce_inflight - 1
    /\ Send(HandleClientError)
    /\ UNCHANGED <<mgr, mgr_pc, mgr_cont, handled, sessions, discoveries, store,
                   ui_udns, ui_budget, ui_inflight, fault_budget, env_budget, amp_vars, hegel_vars>>

---------------------------------------------------------------------------
(* A discover_streamers task *)

DiscStep ==
    UNCHANGED <<mgr, mgr_pc, mgr_cont, handled, sessions, hce_inflight, store,
                ui_udns, ui_budget, ui_inflight, fault_budget, env_budget, amp_vars, hegel_vars>>

\* The search yields a device with a UDN not seen before, which is sent on
DiscoverDevice(k, device) ==
    /\ discoveries[k].running
    /\ discoveries[k].activate_next = ""
    /\ device.udn \notin discoveries[k].seen_udns
    /\ discoveries' = [discoveries EXCEPT
            ![k].seen_udns = @ \cup {device.udn},
            ![k].activate_next = IF discoveries[k].activate_discovered_device
                                 THEN device.udn ELSE ""]
    /\ Send(ProcessDiscoveredDevice(device))
    /\ DiscStep

\* The second send for a device, when discovered devices are to be activated
DiscoverActivate(k) ==
    /\ discoveries[k].running
    /\ discoveries[k].activate_next # ""
    /\ discoveries' = [discoveries EXCEPT ![k].activate_next = ""]
    /\ Send(ActivateUdn(discoveries[k].activate_next))
    /\ DiscStep

\* The search is over (or has failed): SetIsDiscovering(false) is sent
DiscoverEnd(k) ==
    /\ discoveries[k].running
    /\ discoveries[k].activate_next = ""
    /\ discoveries' = [discoveries EXCEPT ![k] = NoDiscovery]
    /\ Send(SetIsDiscovering(FALSE))
    /\ DiscStep

---------------------------------------------------------------------------
(* The environment: the UI's commands and the clock *)

UiActions ==
    {ActivateUdn(udn) : udn \in ui_udns}
    \cup {Deactivate, Discover(FALSE), ShutDown, TestConnection}
    \cup {StopWebSocketClient(remove) : remove \in BOOLEAN}

\* A Tauri command's send reaches the manager's channel
UiSend(action) ==
    /\ ui_budget > 0
    /\ mgr_pc # "ended"
    /\ ui_budget' = ui_budget - 1
    /\ Send(action)
    /\ UNCHANGED <<mgr, mgr_pc, mgr_cont, handled, sessions, hce_inflight,
                   discoveries, store, ui_udns, ui_inflight, fault_budget,
                   env_budget, amp_vars, hegel_vars>>

\* The manager is about to handle a message whose handler may read the clock
\* (in activate_device)
ClockMayBeRead ==
    \/ /\ mgr_pc = "select"
       /\ inbox # <<>>
       /\ Head(inbox).kind \in {"ActivateUdn", "HandleClientError", "TestConnection"}
    \/ ClientHas("Disconnected")

\* Time passes while an activation is under way.  Only activate_device reads
\* the clock, so time is let pass only just before it may be read.
TimePasses ==
    /\ ClockMayBeRead
    /\ mgr.activating_duration # NoTime
    /\ mgr.activating_duration <= activation_timeout
    /\ mgr' = [mgr EXCEPT !.activating_duration = Elapse(@, TimeStep)]
    /\ UNCHANGED <<mgr_pc, mgr_cont, handled, inbox, sessions, hce_inflight,
                   discoveries, store, ui_udns, ui_budget, ui_inflight, fault_budget,
                   env_budget, amp_vars, hegel_vars>>

---------------------------------------------------------------------------
(* The Hegel codec.  A string or a run of bytes is a sequence of one-byte  *)
(* tokens: the ASCII characters stand for themselves, CR and LF for the    *)
(* two control characters and NotUtf8 for a byte no UTF-8 text contains.   *)

\* Option<bool> and Option<u8>
Some(x) == [some |-> TRUE, value |-> x]
NoBool == [some |-> FALSE, value |-> FALSE]
NoU8 == [some |-> FALSE, value |-> 0]

CR == "CR"
LF == "LF"
NotUtf8 == "xFF"

DigitChars == <<"0", "1", "2", "3", "4", "5", "6", "7", "8", "9">>

IsDigit(c) == \E d \in DOMAIN DigitChars : DigitChars[d] = c

DigitValue(c) == (CHOOSE d \in DOMAIN DigitChars : DigitChars[d] = c) - 1

\* The number a run of digits denotes
RECURSIVE DigitsValue(_)
DigitsValue(digits) ==
    IF digits = <<>> THEN 0
    ELSE 10 * DigitsValue(SubSeq(digits, 1, Len(digits) - 1))
            + DigitValue(digits[Len(digits)])

\* The last digit of a number only
LastDigit(n) == <<DigitChars[(n % 10) + 1]>>

\* format!("{n}") of a u8
RECURSIVE Decimal(_)
Decimal(n) ==
    IF n < 10 THEN <<DigitChars[n + 1]>>
    ELSE Decimal(n \div 10) \o <<DigitChars[(n % 10) + 1]>>

\* A parse that keeps the low eight bits of whatever number it is given
parse_u8_wrapping(str) ==
    IF str = <<>> \/ \E i \in DOMAIN str : ~IsDigit(str[i])
    THEN [ok |-> FALSE, value |-> 0]
    ELSE [ok |-> TRUE, value |-> DigitsValue(str) % 256]

\* str.parse::<u8>(): an optional + and then digits, of a value up to u8::MAX
parse_u8(str) ==
    LET digits == IF str # <<>> /\ Head(str) = "+" THEN Tail(str) ELSE str
    IN  IF digits = <<>> \/ \E i \in DOMAIN digits : ~IsDigit(digits[i])
        THEN [ok |-> FALSE, value |-> 0]
        ELSE IF DigitsValue(digits) > 255
        THEN [ok |-> FALSE, value |-> 0]
        ELSE [ok |-> TRUE, value |-> DigitsValue(digits)]

\* HegelCommand: Error(String), Mute and Power(Option<bool>), Source and
\* Volume(Option<u8>)
HegelCommand(kind, value) == [kind |-> kind, value |-> value]

\* HegelCommand::code
code(command) ==
    CASE command.kind = "Error" -> "e"
      [] command.kind = "Mute" -> "m"
      [] command.kind = "Power" -> "p"
      [] command.kind = "Source" -> "i"
      [] command.kind = "Volume" -> "v"

request(command) == <<"-", code(command), ".", "?">>

toggle(command) ==
    IF command.kind \in {"Mute", "Power"} THEN <<"-", code(command), ".", "t">>
    ELSE <<>>

up(command) == IF command.kind = "Volume" THEN <<"-", code(command), ".", "u">> ELSE <<>>

down(command) == IF command.kind = "Volume" THEN <<"-", code(command), ".", "d">> ELSE <<>>

CommandOk(command) == [ok |-> TRUE, command |-> command, error |-> ""]
CommandErr(error) == [ok |-> FALSE, command |-> HegelCommand("", <<>>), error |-> error]

\* Regex ^-([eimpv])\.(.*)$ : . matches everything but LF, $ the end of the text
captures(frame_data) ==
    IF /\ Len(frame_data) >= 3
       /\ frame_data[1] = "-"
       /\ frame_data[2] \in {"e", "i", "m", "p", "v"}
       /\ frame_data[3] = "."
       /\ \A i \in 4..Len(frame_data) : frame_data[i] # LF
    THEN [matched |-> TRUE, command_code |-> frame_data[2],
          command_value |-> SubSeq(frame_data, 4, Len(frame_data))]
    ELSE [matched |-> FALSE, command_code |-> "", command_value |-> <<>>]

\* impl TryFrom<Frame> for HegelCommand
command_from_frame(frame_data) ==
    LET m == captures(frame_data)
        command_value == m.command_value
        number == parse_u8(command_value)
    IN  IF ~m.matched THEN CommandErr("Invalid Frame data")
        ELSE CASE m.command_code = "e" ->
                    CommandOk(HegelCommand("Error", command_value))
               [] m.command_code = "i" ->
                    IF ~number.ok THEN CommandErr("Invalid source value")
                    ELSE IF number.value \in 1..13
                    THEN CommandOk(HegelCommand("Source", Some(number.value)))
                    ELSE CommandErr("Source value out of range (valid is 1-13)")
               [] m.command_code = "m" ->
                    CASE command_value = <<"0">> -> CommandOk(HegelCommand("Mute", Some(FALSE)))
                      [] command_value = <<"1">> -> CommandOk(HegelCommand("Mute", Some(TRUE)))
                      [] OTHER -> CommandErr("Invalid mute value")
               [] m.command_code = "p" ->
                    CASE command_value = <<"0">> -> CommandOk(HegelCommand("Power", Some(FALSE)))
                      [] command_value = <<"1">> -> CommandOk(HegelCommand("Power", Some(TRUE)))
                      [] OTHER -> CommandErr("Invalid power value")
               [] m.command_code = "v" ->
                    IF ~number.ok THEN CommandErr("Invalid volume value")
                    ELSE IF number.value \in 0..100
                    THEN CommandOk(HegelCommand("Volume", Some(number.value)))
                    ELSE CommandErr("Volume value out of range (valid is 0-100)")

FrameOk(data) == [ok |-> TRUE, data |-> data]
FrameErr == [ok |-> FALSE, data |-> <<>>]

\* A Frame of the string as it is
frame_without_cr(string) == FrameOk(string)

\* impl From<String> for Frame
frame_from_string(string) == FrameOk(string \o <<CR>>)

\* impl TryFrom<HegelCommand> for Frame
frame_from_command(command) ==
    LET prefix == <<"-", code(command), ".">>
    IN  CASE command.kind = "Error" -> frame_from_string(prefix \o command.value)
          [] command.kind \in {"Mute", "Power"} ->
                IF ~command.value.some THEN FrameErr
                ELSE frame_from_string(prefix \o (IF command.value.value THEN <<"1">> ELSE <<"0">>))
          [] command.kind = "Source" ->
                IF ~command.value.some THEN FrameErr
                ELSE IF command.value.value \in 1..13
                THEN frame_from_string(prefix \o Decimal(command.value.value))
                ELSE FrameErr
          [] command.kind = "Volume" ->
                IF ~command.value.some THEN FrameErr
                ELSE IF command.value.value \in 0..100
                THEN frame_from_string(prefix \o Decimal(command.value.value))
                ELSE FrameErr

\* The positions of CR in the buffer from start on
LineEnds(src, start) == {i \in start..Len(src) : src[i] = CR}

\* get_line: the bytes from start up to the first CR, and the position after
\* it; Incomplete when there is no CR
get_line(src, start) ==
    IF LineEnds(src, start) = {} THEN [complete |-> FALSE, line |-> <<>>, position |-> start]
    ELSE LET i == CHOOSE x \in LineEnds(src, start) : \A y \in LineEnds(src, start) : x <= y
         IN  [complete |-> TRUE, line |-> SubSeq(src, start, i - 1), position |-> i + 1]

\* String::from_utf8
from_utf8(line) == \A i \in DOMAIN line : line[i] # NotUtf8

\* Frame::check on a buffer read from its start: Ok or FrameError::Incomplete,
\* and the cursor's position
check(src) ==
    LET l == get_line(src, 1)
    IN  [result |-> IF l.complete THEN "Ok" ELSE "Incomplete", position |-> l.position]

\* Frame::parse on a buffer read from its start: a Frame, FrameError::Incomplete
\* or FrameError::Parse
parse(src) ==
    LET l == get_line(src, 1)
    IN  IF ~l.complete THEN [result |-> "Incomplete", data |-> <<>>]
        ELSE IF from_utf8(l.line) THEN [result |-> "Ok", data |-> l.line]
        ELSE [result |-> "Parse", data |-> <<>>]

\* bytes::Buf::advance
advance(buffer, len) == SubSeq(buffer, len + 1, Len(buffer))

\* A parse_frame that steps over the lines that are no text
RECURSIVE parse_frame_skipping(_)
parse_frame_skipping(buffer) ==
    LET checked == check(buffer)
        len == checked.position - 1
    IN  IF checked.result # "Ok" THEN [result |-> "None", data |-> <<>>, buffer |-> buffer]
        ELSE IF parse(buffer).result = "Ok"
        THEN [result |-> "Some", data |-> parse(buffer).data, buffer |-> advance(buffer, len)]
        ELSE parse_frame_skipping(advance(buffer, len))

\* HegelConnection::parse_frame: Ok(Some(frame)) with the buffer advanced past
\* the line, Ok(None), or the Err that Frame::parse's error is turned into,
\* with the buffer as it was
parse_frame(buffer) ==
    LET checked == check(buffer)
        len == checked.position - 1
    IN  IF checked.result # "Ok" THEN [result |-> "None", data |-> <<>>, buffer |-> buffer]
        ELSE IF parse(buffer).result = "Ok"
        THEN [result |-> "Some", data |-> parse(buffer).data, buffer |-> advance(buffer, len)]
        ELSE [result |-> "Err", data |-> <<>>, buffer |-> buffer]

\* AmplifierAction
AmplifierAction(kind, value) == [kind |-> kind, value |-> value]

U8 == 0..255

AmplifierActions ==
    {AmplifierAction(kind, b) : kind \in {"MuteSet", "PowerSet"}, b \in BOOLEAN}
    \cup {AmplifierAction(kind, 0) :
            kind \in {"MuteToggle", "PowerToggle", "VolumeDown", "VolumeUp"}}
    \cup {AmplifierAction(kind, n) : kind \in {"SourceSet", "VolumeSet"}, n \in U8}

\* The frame send_action_to_amplifier makes of an action
hegel_frame_result(action) ==
    CASE action.kind = "MuteSet" -> frame_from_command(HegelCommand("Mute", Some(action.value)))
      [] action.kind = "MuteToggle" -> frame_from_string(toggle(HegelCommand("Mute", NoBool)))
      [] action.kind = "PowerSet" -> frame_from_command(HegelCommand("Power", Some(action.value)))
      [] action.kind = "PowerToggle" -> frame_from_string(toggle(HegelCommand("Power", NoBool)))
      [] action.kind = "SourceSet" -> frame_from_command(HegelCommand("Source", Some(action.value)))
      [] action.kind = "VolumeDown" -> frame_from_string(down(HegelCommand("Volume", NoU8)))
      [] action.kind = "VolumeSet" -> frame_from_command(HegelCommand("Volume", Some(action.value)))
      [] action.kind = "VolumeUp" -> frame_from_string(up(HegelCommand("Volume", NoU8)))

---------------------------------------------------------------------------
(* The amplifier side: values                                              *)

AmplifierDevice(udn, manufacturer, host) ==
    [udn |-> udn, manufacturer |-> manufacturer, url |-> [host |-> host]]

NoAmplifier == AmplifierDevice("", "", "")

\* The MediaRenderer devices a search can find
NetworkRenderers ==
    {AmplifierDevice("amp1", "Hegel", "a1"), AmplifierDevice("tv1", "Other", "t1")}

\* AmplifierManagerAction
AmpAction(kind, flag, device) == [kind |-> kind, flag |-> flag, device |-> device]

AmpDiscover == AmpAction("Discover", FALSE, NoAmplifier)

AmpOnUIReady == AmpAction("OnUIReady", FALSE, NoAmplifier)

AmpProcessDiscoveredDevice(device) == AmpAction("ProcessDiscoveredDevice", FALSE, device)

AmpSetIsDiscovering(flag) == AmpAction("SetIsDiscovering", flag, NoAmplifier)

AmpTestConnection == AmpAction("TestConnection", FALSE, NoAmplifier)

AmpShutDown == AmpAction("ShutDown", FALSE, NoAmplifier)

HandlerSlots == 1..MaxHandlers

\* AmplifierState and its Default
AmplifierState(is_muted, is_powered_on, source, volume) ==
    [is_muted |-> is_muted, is_powered_on |-> is_powered_on,
     source |-> source, volume |-> volume]

DefaultAmplifierState == AmplifierState(NoBool, NoBool, NoU8, NoU8)

\* AmplifierHandlerTxChannelMsg
AmplifierHandlerConnectionStatusMsg(status) ==
    [type |-> "status", status |-> status, amp_state |-> DefaultAmplifierState]

AmplifierStateMsg(amp_state) ==
    [type |-> "state", status |-> "", amp_state |-> amp_state]

\* A handler task: phase "free" (none), "spawned" (connecting), "running" (in
\* the loop of run), "returned" (run has returned result), "done" (the spawned
\* task has finished).  rx and tx are its two channels.  test_duration is
\* the time since connection_test_start_time (NoTime when that is None),
\* heartbeat_duration the time since last_amplifier_heartbeat, written the
\* frames last written to the amplifier, shut_down whether
\* HegelConnection::shutdown was called, and last_power whether the last
\* Power frame changed the state (history).
FreeHandler ==
    [phase |-> "free", connection_status |-> "Disconnected",
     connection_test_under_way |-> FALSE, result |-> "none",
     amplifier_state |-> DefaultAmplifierState,
     test_duration |-> NoTime, heartbeat_duration |-> 0, written |-> <<>>,
     shut_down |-> FALSE, last_power |-> "none",
     rx |-> <<>>, tx |-> <<>>]

NoAmpCont == [kind |-> "none", handle |-> 0, device |-> NoAmplifier]

NoAmpDiscovery == [running |-> FALSE, seen_udns |-> {}]

---------------------------------------------------------------------------
(* AmplifierManager: the methods, on a context c = [m, h, d, ok] of the     *)
(* manager's fields, the handler tasks and the discovery tasks              *)

AmplifierManagerStateMsg(m) ==
    [is_discovering |-> m.is_discovering,
     is_handling_amplifier |-> m.is_handling_amplifier,
     managed_device |-> m.managed_device]

amp_emit_manager_state(m) ==
    [m EXCEPT !.emitted = Append(@, AmplifierManagerStateMsg(m))]

amp_set_is_discovering(m, is_discovering) ==
    amp_emit_manager_state([m EXCEPT !.is_discovering = is_discovering])

set_amplifier_state(m, amplifier_state) ==
    [m EXCEPT !.amp_state = amplifier_state,
              !.emitted_amp_states = Append(@, amplifier_state)]

set_is_handling_amplifier(m, is_handling_amplifier) ==
    amp_emit_manager_state([m EXCEPT !.is_handling_amplifier = is_handling_amplifier])

FreeAmpDiscoveries(d) == {k \in DOMAIN d : ~d[k].running}

amp_do_discovery(c) ==
    IF FreeAmpDiscoveries(c.d) = {} THEN [c EXCEPT !.ok = FALSE]
    ELSE LET k == CHOOSE x \in FreeAmpDiscoveries(c.d) :
                      \A y \in FreeAmpDiscoveries(c.d) : x <= y
         IN  [c EXCEPT !.m = amp_set_is_discovering(c.m, TRUE),
                       !.d[k] = [running |-> TRUE, seen_udns |-> {}]]

\* The send fails (and is only logged) when there is no channel or the
\* handler task, and its receiver with it, is gone.
send_handler_action_to_amplifier_handler(c, handler_action) ==
    LET k == c.m.amp_handler_send_channel
    IN  IF k # 0 /\ c.h[k].phase \notin {"free", "done"}
        THEN [c EXCEPT !.h[k].rx = Append(@, handler_action)]
        ELSE c

\* stop_amplifier_handler up to its await of the join handle
stop_amplifier_handler(c) ==
    IF c.m.amp_handler_join_handle # 0
    THEN send_handler_action_to_amplifier_handler(
             [c EXCEPT !.m.amp_handler_join_handle = 0], "ShutDown")
    ELSE c

FreeHandlers(h) == {k \in HandlerSlots : h[k].phase = "free"}

\* handle_amplifier after its stop_amplifier_handler()
handle_amplifier_stopped(c, device) ==
    LET m1 == set_amplifier_state([c.m EXCEPT !.managed_device = NoAmplifier],
                                  DefaultAmplifierState)
    IN  IF device.manufacturer # "Hegel"
        THEN [c EXCEPT !.m = amp_emit_manager_state(m1)]
        ELSE IF FreeHandlers(c.h) = {} THEN [c EXCEPT !.ok = FALSE]
        ELSE LET k == CHOOSE x \in FreeHandlers(c.h) :
                          \A y \in FreeHandlers(c.h) : x <= y
                 m2 == amp_emit_manager_state([m1 EXCEPT !.managed_device = device])
                 m3 == [m2 EXCEPT !.amp_handler_send_channel = k,
                                  !.amp_handler_receive_channel = k,
                                  !.amp_handler_join_handle = k]
             IN  [c EXCEPT !.m = amp_emit_manager_state(m3),
                           !.h[k] = [FreeHandler EXCEPT !.phase = "spawned"]]

MayReconnectStrict(reconnect_attempts) == reconnect_attempts < max_reconnect_attempts

\* The reconnect test of the Disconnected arm
MayReconnect(reconnect_attempts) == reconnect_attempts <= max_reconnect_attempts

\* The Disconnected arm after its stop_amplifier_handler()
OnAmpDisconnected(c) ==
    IF ~c.m.is_shutting_down /\ c.m.managed_device # NoAmplifier
    THEN LET c1 == [c EXCEPT !.m.reconnect_attempts = @ + 1]
         IN  IF MayReconnect(c1.m.reconnect_attempts)
             THEN handle_amplifier_stopped(stop_amplifier_handler(c1), c1.m.managed_device)
             ELSE [c1 EXCEPT !.m.reconnect_attempts = 0]
    ELSE c

---------------------------------------------------------------------------
(* The AmplifierManager actor: initialize() and one action for every arm   *)
(* of the select! in run() that some sender of the program reaches.        *)
(* DisconnectFromAmplifier and ShutDown are sent by nothing in the program *)
(* and AmplifierActionMsg is passed on to the amplifier unchanged.         *)

AmpCtx == [m |-> [amp EXCEPT !.emitted = <<>>, !.emitted_amp_states = <<>>],
           h |-> handlers,
           d |-> amp_discoveries, ok |-> TRUE]

AmpCtxResumed == [m |-> amp, h |-> handlers, d |-> amp_discoveries, ok |-> TRUE]

\* What is left of the handler tasks once dropped values are forgotten
AmpCollect(m, h, awaited) ==
    [k \in HandlerSlots |->
        IF h[k].phase = "done"
           /\ k \notin {m.amp_handler_join_handle, m.amp_handler_send_channel,
                        m.amp_handler_receive_channel, awaited}
        THEN FreeHandler
        ELSE [h[k] EXCEPT
                !.rx = IF h[k].phase = "done" THEN <<>> ELSE @,
                !.tx = IF m.amp_handler_receive_channel = k THEN @ ELSE <<>>]]

AmpLeave(res) ==
    /\ res.c.ok
    /\ amp' = res.c.m
    /\ handlers' = AmpCollect(res.c.m, res.c.h, res.cont.handle)
    /\ amp_discoveries' = res.c.d
    /\ amp_cont' = res.cont
    /\ amp_pc' = CASE res.cont.kind = "none" -> "select"
                    [] res.cont.kind = "ended" -> "ended"
                    [] OTHER -> "join"
    /\ UNCHANGED <<amp_ui_budget, amp_fault_budget, streamer_vars, hegel_vars>>

AmpDone(c) == [c |-> c, cont |-> NoAmpCont]

\* run() has left its loop
AmpEnded(c) == [c |-> c, cont |-> [NoAmpCont EXCEPT !.kind = "ended"]]

\* A handler that awaits the join handle it has taken and goes on as kind says
AmpAwait(c0, c, kind, device) ==
    [c |-> c, cont |-> [kind |-> kind, handle |-> c0.m.amp_handler_join_handle,
                        device |-> device]]

\* handle.await returns at once when the task has finished (or none is held)
AmpJoined(c) ==
    \/ c.m.amp_handler_join_handle = 0
    \/ c.h[c.m.amp_handler_join_handle].phase = "done"

AmpReceive(kind) ==
    /\ amp_pc = "select"
    /\ amp_inbox # <<>>
    /\ Head(amp_inbox).kind = kind
    /\ amp_inbox' = Tail(amp_inbox)
    /\ amp_handled' = [src |-> "inbox", kind |-> kind,
                       disconnects |-> IF kind = "ProcessDiscoveredDevice"
                                       THEN 0 ELSE amp_handled.disconnects,
                       reconnects |-> IF kind = "ProcessDiscoveredDevice"
                                      THEN 0 ELSE amp_handled.reconnects]

AmpMgrInitialize ==
    /\ amp_pc = "init"
    /\ AmpLeave(AmpDone(amp_do_discovery(AmpCtx)))
    /\ UNCHANGED <<amp_inbox, amp_handled>>

AmpMgrDiscover ==
    /\ AmpReceive("Discover")
    /\ AmpLeave(AmpDone(amp_do_discovery(AmpCtx)))

AmpMgrOnUIReady ==
    /\ AmpReceive("OnUIReady")
    /\ AmpLeave(AmpDone([AmpCtx EXCEPT !.m = amp_emit_manager_state(@)]))

AmpMgrProcessDiscoveredDevice ==
    /\ AmpReceive("ProcessDiscoveredDevice")
    /\ LET device == Head(amp_inbox).device
           c0 == [AmpCtx EXCEPT !.m.reconnect_attempts = 0]
           c == stop_amplifier_handler(c0)
       IN  IF AmpJoined(c0)
           THEN AmpLeave(AmpDone(handle_amplifier_stopped(c, device)))
           ELSE AmpLeave(AmpAwait(c0, c, "handle_amplifier", device))

AmpMgrSetIsDiscovering ==
    /\ AmpReceive("SetIsDiscovering")
    /\ AmpLeave(AmpDone([AmpCtx EXCEPT
            !.m = amp_set_is_discovering(@, Head(amp_inbox).flag)]))

\* The ShutDown arm, which no sender of the program reaches
AmpMgrShutDown ==
    /\ AmpReceive("ShutDown")
    /\ LET c0 == [AmpCtx EXCEPT !.m.is_shutting_down = TRUE]
           c == stop_amplifier_handler(c0)
       IN  IF AmpJoined(c0)
           THEN AmpLeave(AmpEnded(c))
           ELSE AmpLeave(AmpAwait(c0, c, "shutdown", NoAmplifier))

AmpMgrTestConnection ==
    /\ AmpReceive("TestConnection")
    /\ IF amp.is_handling_amplifier
       THEN AmpLeave(AmpDone(send_handler_action_to_amplifier_handler(
                [AmpCtx EXCEPT !.m.is_testing_connection = TRUE], "TestConnection")))
       ELSE AmpLeave(AmpDone(AmpCtx))

\* The next message of the current handler's channel
HandlerHas(status) ==
    /\ amp_pc = "select"
    /\ amp.amp_handler_receive_channel # 0
    /\ handlers[amp.amp_handler_receive_channel].tx # <<>>
    /\ Head(handlers[amp.amp_handler_receive_channel].tx).type = "status"
    /\ Head(handlers[amp.amp_handler_receive_channel].tx).status = status

AmpCtxHandler == [AmpCtx EXCEPT !.h[amp.amp_handler_receive_channel].tx = Tail(@)]

AmpMgrHandlerConnected ==
    /\ HandlerHas("Connected")
    /\ AmpLeave(AmpDone([AmpCtxHandler EXCEPT
            !.m = [set_is_handling_amplifier(@, TRUE) EXCEPT !.reconnect_attempts = 0]]))
    /\ amp_handled' = [src |-> "handler", kind |-> "Connected", disconnects |-> 0,
                       reconnects |-> amp_handled.reconnects]
    /\ UNCHANGED amp_inbox

\* 1 if the Disconnected arm, gone on from c, spawns a handler (history)
Reconnected(c) == IF OnAmpDisconnected(c).m.amp_handler_join_handle # 0 THEN 1 ELSE 0

\* reconnects (history): the handlers the Disconnected arm has spawned since
\* the last ProcessDiscoveredDevice
AmpMgrHandlerDisconnected ==
    /\ HandlerHas("Disconnected")
    /\ LET c0 == [AmpCtxHandler EXCEPT !.m = set_is_handling_amplifier(@, FALSE)]
           c == stop_amplifier_handler(c0)
       IN  /\ IF AmpJoined(c0)
              THEN AmpLeave(AmpDone(OnAmpDisconnected(c)))
              ELSE AmpLeave(AmpAwait(c0, c, "reconnect", NoAmplifier))
           /\ amp_handled' =
                  [src |-> "handler", kind |-> "Disconnected",
                   disconnects |-> amp_handled.disconnects + 1,
                   reconnects |-> amp_handled.reconnects
                                    + IF AmpJoined(c0) THEN Reconnected(c) ELSE 0]
    /\ UNCHANGED amp_inbox

\* The awaited handler task has finished: the arm runs to its end.
AmpMgrJoinDone ==
    /\ amp_pc = "join"
    /\ handlers[amp_cont.handle].phase = "done"
    /\ CASE amp_cont.kind = "handle_amplifier" ->
                AmpLeave(AmpDone(handle_amplifier_stopped(AmpCtxResumed, amp_cont.device)))
         [] amp_cont.kind = "reconnect" ->
                AmpLeave(AmpDone(OnAmpDisconnected(AmpCtxResumed)))
         [] amp_cont.kind = "shutdown" ->
                AmpLeave(AmpEnded(AmpCtxResumed))
         [] amp_cont.kind = "disconnect" ->
                AmpLeave(AmpDone(AmpCtxResumed))
    /\ amp_handled' = IF amp_cont.kind = "reconnect"
                      THEN [amp_handled EXCEPT
                               !.reconnects = @ + Reconnected(AmpCtxResumed)]
                      ELSE amp_handled
    /\ UNCHANGED amp_inbox

---------------------------------------------------------------------------
(* A HegelAmplifierHandler task: connect_to_amplifier(), then one action   *)
(* for every way an arm of the select! in run() changes the handler, then  *)
(* the end of the spawned task.                                            *)

\* set_connection_status: the send fails (and is only logged) once the
\* manager has dropped the receiver.
set_connection_status(h, k, status) ==
    [h EXCEPT ![k].connection_status = status,
              ![k].tx = IF amp.amp_handler_receive_channel = k
                        THEN Append(@, AmplifierHandlerConnectionStatusMsg(status))
                        ELSE @]

\* HegelConnection::shutdown
shutdown(h, k) == [h EXCEPT ![k].shut_down = TRUE]

\* run() returns result
HandlerReturn(h, k, result) ==
    [h EXCEPT ![k].phase = "returned", ![k].result = result,
              ![k].connection_test_under_way = FALSE,
              ![k].test_duration = NoTime, ![k].heartbeat_duration = 0,
              ![k].amplifier_state = DefaultAmplifierState,
              ![k].written = <<>>, ![k].last_power = "none"]

HandlerStep ==
    UNCHANGED <<amp, amp_pc, amp_cont, amp_handled, amp_inbox, amp_discoveries,
                amp_ui_budget, streamer_vars, hegel_vars>>

AmpNoFault == UNCHANGED amp_fault_budget

AmpFault ==
    /\ amp_fault_budget > 0
    /\ amp_fault_budget' = amp_fault_budget - 1

HandlerConnectOk(k) ==
    /\ handlers[k].phase = "spawned"
    /\ handlers' = [set_connection_status(handlers, k, "Connected")
                        EXCEPT ![k].phase = "running"]
    /\ AmpNoFault /\ HandlerStep

\* The connection is refused or times out
HandlerConnectErr(k) ==
    /\ handlers[k].phase = "spawned"
    /\ handlers' = HandlerReturn(set_connection_status(handlers, k, "Disconnected"),
                                 k, "err")
    /\ AmpFault /\ HandlerStep

HandlerReceives(k, action) ==
    /\ handlers[k].phase = "running"
    /\ handlers[k].rx # <<>>
    /\ Head(handlers[k].rx) = action

HandlerReceived(k) == [handlers EXCEPT ![k].rx = Tail(@)]

HandlerShutDown(k) ==
    /\ HandlerReceives(k, "ShutDown")
    /\ handlers' = HandlerReturn(
            set_connection_status(HandlerReceived(k), k, "Disconnected"), k, "ok")
    /\ AmpNoFault /\ HandlerStep

\* initiate_connection_test: the Power request is written or the write fails
HandlerTestConnection(k, written) ==
    /\ HandlerReceives(k, "TestConnection")
    /\ handlers' = [HandlerReceived(k) EXCEPT
            ![k].connection_test_under_way = IF written THEN TRUE ELSE @,
            ![k].test_duration = IF written THEN 0 ELSE @,
            ![k].written = IF written
                           THEN <<frame_from_string(request(HegelCommand("Power", NoBool))).data>>
                           ELSE @]
    /\ IF written THEN AmpNoFault ELSE AmpFault
    /\ HandlerStep

\* A Power frame arrives: it ends a connection test and counts as a heartbeat
HandlerPowerFrame(k) ==
    /\ handlers[k].phase = "running"
    /\ handlers[k].connection_test_under_way
    /\ handlers' = [handlers EXCEPT ![k].connection_test_under_way = FALSE,
                                    ![k].test_duration = NoTime]
    /\ AmpNoFault /\ HandlerStep

\* read_frame yields None: the amplifier has closed the connection cleanly
HandlerCleanClose(k) ==
    /\ handlers[k].phase = "running"
    /\ handlers' = HandlerReturn(handlers, k, "ok")
    /\ AmpFault /\ HandlerStep

HandlerReadErr(k) ==
    /\ handlers[k].phase = "running"
    /\ handlers' = HandlerReturn(set_connection_status(handlers, k, "Disconnected"),
                                 k, "ok")
    /\ AmpFault /\ HandlerStep

\* The tick finds the connection test unanswered after connection_test_timeout
HandlerTestTimeout(k) ==
    /\ handlers[k].phase = "running"
    /\ handlers[k].connection_test_under_way
    /\ handlers' = HandlerReturn(
            set_connection_status(shutdown(handlers, k), k, "Disconnected"), k, "ok")
    /\ AmpFault /\ HandlerStep

\* The tick finds no heartbeat for more than max_heartbeat_timeout
HandlerHeartbeatLost(k) ==
    /\ handlers[k].phase = "running"
    /\ handlers' = HandlerReturn(
            set_connection_status(shutdown(handlers, k), k, "Disconnected"), k, "ok")
    /\ AmpFault /\ HandlerStep

\* The spawned task finishes: the result is logged and the channels are dropped
HandlerEnd(k) ==
    /\ handlers[k].phase = "returned"
    /\ handlers' = AmpCollect(amp, [handlers EXCEPT ![k].phase = "done",
                                                    ![k].shut_down = FALSE],
                              IF amp_pc = "join" THEN amp_cont.handle ELSE 0)
    /\ AmpNoFault /\ HandlerStep

---------------------------------------------------------------------------
(* A discover_amplifiers task, the UI's commands, and the amplifier side   *)
(* as a whole                                                              *)

\* A send on the manager's channel.  As on the streamer side, a sender gets
\* its turn when the channel is empty.
AmpSend(action) ==
    /\ amp_inbox = <<>>
    /\ amp_inbox' = <<action>>

AmpDiscStep ==
    UNCHANGED <<amp, amp_pc, amp_cont, amp_handled, handlers, amp_ui_budget,
                amp_fault_budget, streamer_vars, hegel_vars>>

\* The search yields a Hegel device with a UDN not seen before, which is sent on
AmpDiscoverDevice(k, device) ==
    /\ amp_discoveries[k].running
    /\ device.udn \notin amp_discoveries[k].seen_udns
    /\ device.manufacturer = "Hegel"
    /\ amp_discoveries' = [amp_discoveries EXCEPT ![k].seen_udns = @ \cup {device.udn}]
    /\ AmpSend(AmpProcessDiscoveredDevice(device))
    /\ AmpDiscStep

\* The search yields a renderer of another manufacturer, which is ignored
AmpDiscoverOther(k, device) ==
    /\ amp_discoveries[k].running
    /\ device.udn \notin amp_discoveries[k].seen_udns
    /\ device.manufacturer # "Hegel"
    /\ amp_discoveries' = [amp_discoveries EXCEPT ![k].seen_udns = @ \cup {device.udn}]
    /\ UNCHANGED amp_inbox
    /\ AmpDiscStep

\* The search is over (or has failed): SetIsDiscovering(false) is sent
AmpDiscoverEnd(k) ==
    /\ amp_discoveries[k].running
    /\ amp_discoveries' = [amp_discoveries EXCEPT ![k] = NoAmpDiscovery]
    /\ AmpSend(AmpSetIsDiscovering(FALSE))
    /\ AmpDiscStep

AmpUiActions == {AmpDiscover, AmpOnUIReady, AmpTestConnection}

\* A Tauri command's send reaches the manager's channel
AmpUiSend(action) ==
    /\ amp_ui_budget > 0
    /\ amp_ui_budget' = amp_ui_budget - 1
    /\ AmpSend(action)
    /\ UNCHANGED <<amp, amp_pc, amp_cont, amp_handled, handlers, amp_discoveries,
                   amp_fault_budget, streamer_vars, hegel_vars>>

\* AmplifierManager::new
NewAmplifierManager ==
    [amp_handler_join_handle |-> 0, amp_handler_receive_channel |-> 0,
     amp_handler_send_channel |-> 0,
     is_discovering |-> FALSE, is_handling_amplifier |-> FALSE,
     is_shutting_down |-> FALSE, is_testing_connection |-> FALSE,
     managed_device |-> NoAmplifier, reconnect_attempts |-> 0,
     amp_state |-> DefaultAmplifierState,
     emitted |-> <<>>, emitted_amp_states |-> <<>>]

\* No connection to an amplifier and nothing put to the codec
NoConnection ==
    [pc |-> "idle", stream |-> <<>>, peer_closed |-> FALSE, buffer |-> <<>>,
     received |-> <<>>, frames |-> <<>>, connection_status |-> "Disconnected",
     written |-> <<>>, write_failed |-> FALSE, actions |-> 0,
     action |-> [kind |-> "", value |-> 0]]

NoCodec ==
    [step |-> "idle", line |-> <<>>, command |-> HegelCommand("", <<>>),
     frame |-> FrameErr, read |-> parse(<<>>), parsed |-> CommandErr("")]

HegelIdle == hegel_connection = NoConnection /\ codec = NoCodec

AmpStart ==
    /\ amp = NewAmplifierManager
    /\ amp_pc = "init"
    /\ amp_cont = NoAmpCont
    /\ amp_handled = [src |-> "none", kind |-> "", disconnects |-> 0, reconnects |-> 0]
    /\ amp_inbox = <<>>
    /\ handlers = [k \in HandlerSlots |-> FreeHandler]
    /\ amp_discoveries = [k \in 1..MaxAmpDiscoveries |-> NoAmpDiscovery]
    /\ amp_ui_budget = MaxAmpUiActions
    /\ amp_fault_budget = MaxAmpFaults

AmpInit == AmpStart /\ HegelIdle

AmpNext ==
    \/ AmpMgrInitialize
    \/ AmpMgrDiscover
    \/ AmpMgrOnUIReady
    \/ AmpMgrProcessDiscoveredDevice
    \/ AmpMgrSetIsDiscovering
    \/ AmpMgrTestConnection
    \/ AmpMgrHandlerConnected
    \/ AmpMgrHandlerDisconnected
    \/ AmpMgrJoinDone
    \/ \E k \in HandlerSlots : HandlerConnectOk(k)
    \/ \E k \in HandlerSlots : HandlerConnectErr(k)
    \/ \E k \in HandlerSlots : HandlerShutDown(k)
    \/ \E k \in HandlerSlots, written \in BOOLEAN : HandlerTestConnection(k, written)
    \/ \E k \in HandlerSlots : HandlerPowerFrame(k)
    \/ \E k \in HandlerSlots : HandlerCleanClose(k)
    \/ \E k \in HandlerSlots : HandlerReadErr(k)
    \/ \E k \in HandlerSlots : HandlerTestTimeout(k)
    \/ \E k \in HandlerSlots : HandlerHeartbeatLost(k)
    \/ \E k \in HandlerSlots : HandlerEnd(k)
    \/ \E k \in 1..MaxAmpDiscoveries, device \in NetworkRenderers : AmpDiscoverDevice(k, device)
    \/ \E k \in 1..MaxAmpDiscoveries, device \in NetworkRenderers : AmpDiscoverOther(k, device)
    \/ \E k \in 1..MaxAmpDiscoveries : AmpDiscoverEnd(k)
    \/ \E action \in AmpUiActions : AmpUiSend(action)

---------------------------------------------------------------------------
(* The streamer side as a whole *)

\* StreamMagicManager::new
NewManager ==
    [devices |-> <<>>, last_active_device |-> NoDevice,
     is_activating |-> FALSE, is_discovering |-> FALSE,
     is_testing_connection |-> FALSE,
     activating_duration |-> NoTime, activation_attempts |-> 0,
     ws_client_join_handle |-> 0, ws_client_send_channel |-> 0,
     ws_client_receive_channel |-> 0,
     ws_client_status |-> DisconnectedDefault,
     payloads |-> [path \in PayloadPaths |-> NoPayload],
     buffered_app_logs |-> <<>>,
     ui_ready |-> FALSE,
     emitted_events |-> <<>>,
     emitted |-> <<>>]

\* The persisted last_connected_host: none, or the host of a streamer an
\* earlier run connected to
PersistedHosts == {NoHost, "h1"}

\* The streamer side after construction, but for the persisted host and the
\* number of commands the UI is going to send
StreamerStart ==
    /\ mgr = NewManager
    /\ mgr_pc = "init"
    /\ mgr_cont = NoCont
    /\ handled = NoMsg
    /\ inbox = <<>>
    /\ sessions = [k \in Slots |-> FreeSession]
    /\ hce_inflight = 0
    /\ discoveries = [k \in 1..MaxDiscoveries |-> NoDiscovery]
    /\ ui_udns = {}
    /\ fault_budget = MaxFaults

\* No text frame of a streamer and no app log is to come
NoFeed == [frames |-> 0, app_logs |-> 0]

StreamerInit ==
    /\ StreamerStart
    /\ store \in PersistedHosts
    /\ ui_budget = MaxUiActions
    /\ ui_inflight = <<>>
    /\ env_budget = NoFeed

Init == StreamerInit /\ AmpInit

Next ==
    \/ MgrInitialize
    \/ MgrActivateUdn
    \/ MgrDeactivate
    \/ MgrDiscover
    \/ MgrHandleClientError
    \/ MgrProcessDiscoveredDevice
    \/ MgrSetIsDiscovering
    \/ MgrShutDown
    \/ MgrStopWebSocketClient
    \/ MgrTestConnection
    \/ MgrJoinDone
    \/ MgrClientConnected
    \/ MgrClientDisconnected
    \/ MgrClientConnecting
    \/ MgrClientTestingConnection
    \/ \E k \in Slots : SessConnecting(k)
    \/ \E k \in Slots : SessConnectOk(k)
    \/ \E k \in Slots : SessConnectErr(k)
    \/ \E k \in Slots : SessDataMsg(k)
    \/ \E k \in Slots : SessShutDown(k)
    \/ \E k \in Slots, ping_sent \in BOOLEAN : SessTestConnection(k, ping_sent)
    \/ \E k \in Slots : SessPong(k)
    \/ \E k \in Slots : SessClose(k)
    \/ \E k \in Slots : SessReadErr(k)
    \/ \E k \in Slots : SessPongTimeout(k)
    \/ \E k \in Slots : SessEnd(k)
    \/ SendHandleClientError
    \/ \E k \in 1..MaxDiscoveries, device \in NetworkDevices : DiscoverDevice(k, device)
    \/ \E k \in 1..MaxDiscoveries : DiscoverActivate(k)
    \/ \E k \in 1..MaxDiscoveries : DiscoverEnd(k)
    \/ \E action \in UiActions : UiSend(action)
    \/ TimePasses

Spec == Init /\ [][Next]_vars

\* The streamer side of an installation that has connected to h1 before, with
\* a user who sends up to MaxRetestUiActions commands, each a Discover or a
\* TestConnection: the arms no sender reaches then are left out.
RetestUiActions == {Discover(FALSE), TestConnection}

RetestInit ==
    /\ StreamerStart
    /\ store = "h1"
    /\ ui_budget = MaxRetestUiActions
    /\ ui_inflight = <<>>
    /\ env_budget = NoFeed
    /\ AmpInit

RetestNext ==
    \/ MgrInitialize
    \/ MgrDiscover
    \/ MgrHandleClientError
    \/ MgrProcessDiscoveredDevice
    \/ MgrSetIsDiscovering
    \/ MgrTestConnection
    \/ MgrJoinDone
    \/ MgrClientConnected
    \/ MgrClientDisconnected
    \/ MgrClientConnecting
    \/ MgrClientTestingConnection
    \/ \E k \in Slots : SessConnecting(k)
    \/ \E k \in Slots : SessConnectOk(k)
    \/ \E k \in Slots : SessConnectErr(k)
    \/ \E k \in Slots : SessDataMsg(k)
    \/ \E k \in Slots : SessShutDown(k)
    \/ \E k \in Slots, ping_sent \in BOOLEAN : SessTestConnection(k, ping_sent)
    \/ \E k \in Slots : SessPong(k)
    \/ \E k \in Slots : SessClose(k)
    \/ \E k \in Slots : SessReadErr(k)
    \/ \E k \in Slots : SessPongTimeout(k)
    \/ \E k \in Slots : SessEnd(k)
    \/ SendHandleClientError
    \/ \E k \in 1..MaxDiscoveries, device \in NetworkDevices : DiscoverDevice(k, device)
    \/ \E k \in 1..MaxDiscoveries : DiscoverEnd(k)
    \/ \E action \in RetestUiActions : UiSend(action)
    \/ TimePasses

RetestSpec == RetestInit /\ [][RetestNext]_vars

\* The streamer side with a user who sends up to MaxStreamerActions
\* StreamerActions and no other command: the arms no sender reaches then are
\* left out.
StreamerActionUiActions == {StreamerActionMsg(a) : a \in StreamerActions}

ActionInit ==
    /\ StreamerStart
    /\ store \in PersistedHosts
    /\ ui_budget = MaxStreamerActions
    /\ ui_inflight = <<>>
    /\ env_budget = NoFeed
    /\ AmpInit

ActionNext ==
    \/ MgrInitialize
    \/ MgrActivateUdn
    \/ MgrHandleClientError
    \/ MgrProcessDiscoveredDevice
    \/ MgrSetIsDiscovering
    \/ MgrStreamerAction
    \/ MgrJoinDone
    \/ MgrClientConnected
    \/ MgrClientDisconnected
    \/ MgrClientConnecting
    \/ \E k \in Slots : SessConnecting(k)
    \/ \E k \in Slots : SessConnectOk(k)
    \/ \E k \in Slots : SessConnectErr(k)
    \/ \E k \in Slots : SessDataMsg(k)
    \/ \E k \in Slots : SessShutDown(k)
    \/ \E k \in Slots : SessClose(k)
    \/ \E k \in Slots : SessReadErr(k)
    \/ \E k \in Slots : SessEnd(k)
    \/ SendHandleClientError
    \/ \E k \in 1..MaxDiscoveries, device \in NetworkDevices : DiscoverDevice(k, device)
    \/ \E k \in 1..MaxDiscoveries : DiscoverActivate(k)
    \/ \E k \in 1..MaxDiscoveries : DiscoverEnd(k)
    \/ \E action \in StreamerActionUiActions : UiSend(action)
    \/ TimePasses

ActionSpec == ActionInit /\ [][ActionNext]_vars

\* The streamer side with a streamer that sends up to MaxFrames texts and a
\* user who may send one Deactivate: the arms no sender reaches then are left
\* out.
CacheUiActions == {Deactivate}

CacheInit ==
    /\ StreamerStart
    /\ store = "h1"
    /\ ui_budget = MaxCacheUiActions
    /\ ui_inflight = <<>>
    /\ env_budget = [NoFeed EXCEPT !.frames = MaxFrames]
    /\ AmpInit

CacheNext ==
    \/ MgrInitialize
    \/ MgrDeactivate
    \/ MgrHandleClientError
    \/ MgrJoinDone
    \/ MgrClientConnected
    \/ MgrClientDisconnected
    \/ MgrClientConnecting
    \/ MgrClientDataMsg
    \/ \E k \in Slots : SessConnecting(k)
    \/ \E k \in Slots : SessConnectOk(k)
    \/ \E k \in Slots : SessConnectErr(k)
    \/ \E k \in Slots : SessDataMsg(k)
    \/ \E k \in Slots : SessShutDown(k)
    \/ \E k \in Slots, frame \in DeviceFrames : SessText(k, frame)
    \/ \E k \in Slots : SessClose(k)
    \/ \E k \in Slots : SessReadErr(k)
    \/ \E k \in Slots : SessEnd(k)
    \/ SendHandleClientError
    \/ \E action \in CacheUiActions : UiSend(action)
    \/ TimePasses

CacheSpec == CacheInit /\ [][CacheNext]_vars

\* The task send_app_log spawns sends its EmitAppLog; the logs are numbered in
\* the order they reach the manager's channel.
AppLogSent ==
    /\ env_budget.app_logs > 0
    /\ mgr_pc # "ended"
    /\ env_budget' = [env_budget EXCEPT !.app_logs = @ - 1]
    /\ Send(EmitAppLog(MaxAppLogs - env_budget.app_logs + 1))
    /\ UNCHANGED <<mgr, mgr_pc, mgr_cont, handled, sessions, hce_inflight,
                   discoveries, store, ui_udns, ui_budget, ui_inflight, fault_budget, amp_vars, hegel_vars>>

\* The streamer side with up to MaxAppLogs app logs and a UI that reports
\* itself ready up to MaxLogUiActions times
LogUiActions == {OnUIReady}

LogInit ==
    /\ StreamerStart
    /\ store = "h1"
    /\ ui_budget = MaxLogUiActions
    /\ ui_inflight = <<>>
    /\ env_budget = [NoFeed EXCEPT !.app_logs = MaxAppLogs]
    /\ AmpInit

LogNext ==
    \/ MgrInitialize
    \/ MgrEmitAppLog
    \/ MgrOnUIReady
    \/ MgrHandleClientError
    \/ MgrClientConnected
    \/ MgrClientDisconnected
    \/ MgrClientConnecting
    \/ \E k \in Slots : SessConnecting(k)
    \/ \E k \in Slots : SessConnectOk(k)
    \/ \E k \in Slots : SessConnectErr(k)
    \/ \E k \in Slots : SessDataMsg(k)
    \/ \E k \in Slots : SessClose(k)
    \/ \E k \in Slots : SessReadErr(k)
    \/ \E k \in Slots : SessEnd(k)
    \/ SendHandleClientError
    \/ AppLogSent
    \/ \E action \in LogUiActions : UiSend(action)
    \/ TimePasses

LogSpec == LogInit /\ [][LogNext]_vars

\* The amplifier side with an amplifier that accepts every connection and
\* never sends a frame, and a UI that sends nothing
SilentInit ==
    /\ StreamerStart
    /\ store = "h1"
    /\ ui_budget = MaxUiActions
    /\ ui_inflight = <<>>
    /\ env_budget = NoFeed
    /\ AmpInit

SilentNext ==
    \/ AmpMgrInitialize
    \/ AmpMgrProcessDiscoveredDevice
    \/ AmpMgrSetIsDiscovering
    \/ AmpMgrHandlerConnected
    \/ AmpMgrHandlerDisconnected
    \/ AmpMgrJoinDone
    \/ \E k \in HandlerSlots : HandlerConnectOk(k)
    \/ \E k \in HandlerSlots : HandlerHeartbeatLost(k)
    \/ \E k \in HandlerSlots : HandlerEnd(k)
    \/ \E k \in 1..MaxAmpDiscoveries, device \in NetworkRenderers :
            AmpDiscoverDevice(k, device)
    \/ \E k \in 1..MaxAmpDiscoveries, device \in NetworkRenderers :
            AmpDiscoverOther(k, device)
    \/ \E k \in 1..MaxAmpDiscoveries : AmpDiscoverEnd(k)

SilentSpec == SilentInit /\ [][SilentNext]_vars

\* A holder of the manager's channel other than discover_amplifiers sends
\* ProcessDiscoveredDevice for a renderer of another manufacturer
AmpSendUnsupported(device) ==
    /\ device.manufacturer # "Hegel"
    /\ amp_ui_budget > 0
    /\ amp_ui_budget' = amp_ui_budget - 1
    /\ AmpSend(AmpProcessDiscoveredDevice(device))
    /\ UNCHANGED <<amp, amp_pc, amp_cont, amp_handled, handlers, amp_discoveries,
                   amp_fault_budget, streamer_vars, hegel_vars>>

\* A holder of the manager's channel sends ShutDown
AmpSendShutDown ==
    /\ amp_ui_budget > 0
    /\ amp_pc # "ended"
    /\ amp_ui_budget' = amp_ui_budget - 1
    /\ AmpSend(AmpShutDown)
    /\ UNCHANGED <<amp, amp_pc, amp_cont, amp_handled, handlers, amp_discoveries,
                   amp_fault_budget, streamer_vars, hegel_vars>>

\* Both managers, each with a session that may fail and a ShutDown that may
\* come at any time; the streamer's discovery finds nothing
ShutDownUiActions == {ShutDown}

ShutDownInit ==
    /\ StreamerStart
    /\ store = "h1"
    /\ ui_budget = MaxUiActions
    /\ ui_inflight = <<>>
    /\ env_budget = NoFeed
    /\ AmpInit

ShutDownNext ==
    \/ MgrInitialize
    \/ MgrShutDown
    \/ MgrHandleClientError
    \/ MgrJoinDone
    \/ MgrClientConnected
    \/ MgrClientDisconnected
    \/ MgrClientConnecting
    \/ \E k \in Slots : SessConnecting(k)
    \/ \E k \in Slots : SessConnectOk(k)
    \/ \E k \in Slots : SessConnectErr(k)
    \/ \E k \in Slots : SessDataMsg(k)
    \/ \E k \in Slots : SessShutDown(k)
    \/ \E k \in Slots : SessClose(k)
    \/ \E k \in Slots : SessReadErr(k)
    \/ \E k \in Slots : SessEnd(k)
    \/ SendHandleClientError
    \/ \E action \in ShutDownUiActions : UiSend(action)
    \/ TimePasses
    \/ AmpMgrInitialize
    \/ AmpMgrProcessDiscoveredDevice
    \/ AmpMgrSetIsDiscovering
    \/ AmpMgrShutDown
    \/ AmpMgrHandlerConnected
    \/ AmpMgrHandlerDisconnected
    \/ AmpMgrJoinDone
    \/ \E k \in HandlerSlots : HandlerConnectOk(k)
    \/ \E k \in HandlerSlots : HandlerConnectErr(k)
    \/ \E k \in HandlerSlots : HandlerShutDown(k)
    \/ \E k \in HandlerSlots : HandlerReadErr(k)
    \/ \E k \in HandlerSlots : HandlerEnd(k)
    \/ \E k \in 1..MaxAmpDiscoveries, device \in NetworkRenderers :
            AmpDiscoverDevice(k, device)
    \/ \E k \in 1..MaxAmpDiscoveries : AmpDiscoverEnd(k)
    \/ AmpSendShutDown

ShutDownSpec == ShutDownInit /\ [][ShutDownNext]_vars

\* The amplifier side with such a sender
UnsupportedNext ==
    \/ AmpNext
    \/ \E device \in NetworkRenderers : AmpSendUnsupported(device)

UnsupportedSpec == Init /\ [][UnsupportedNext]_vars

\* The amplifier side on its own: AmplifierManager, its handler tasks and
\* discovery tasks share no state with the streamer side.
AmpSpec == Init /\ [][AmpNext]_vars

---------------------------------------------------------------------------
(* Properties *)

ActiveDevices(devices) == {i \in DOMAIN devices : devices[i].is_active}

AtMostOneActive(devices) == Cardinality(ActiveDevices(devices)) <= 1

\* C1: in the manager's state, and in every manager state emitted to the UI
\* while a message was handled, at most one device has is_active = TRUE.
C1_AtMostOneActive ==
    /\ AtMostOneActive(mgr.devices)
    /\ \A i \in DOMAIN mgr.emitted : AtMostOneActive(mgr.emitted[i].devices)

\* C1: the list holds two devices of the connected host, one of them active.
C1_Witness ==
    /\ mgr.ws_client_status.state = "Connected"
    /\ \E i, j \in DOMAIN mgr.devices :
          /\ i # j
          /\ host_from_url(mgr.devices[i].url) = host_from_url(mgr.devices[j].url)
          /\ host_from_url(mgr.devices[i].url) = host_from_url(mgr.ws_client_status.url)
          /\ mgr.devices[i].is_active

\* C2: in every manager state emitted with the status Connected, is_activating
\* is FALSE.
C2_ConnectedNotActivating ==
    \A i \in DOMAIN mgr.emitted :
        mgr.emitted[i].websocket_client_status.state = "Connected"
            => ~mgr.emitted[i].is_activating

\* Session tasks that have been spawned and have not finished
LiveSessions == {k \in Slots : sessions[k].phase \notin {"free", "done"}}

\* Nothing is under way on the streamer side: no task is running, no message
\* is in a channel or about to be sent, and the manager waits in its select!.
StreamerQuiescent ==
    /\ mgr_pc = "select"
    /\ inbox = <<>>
    /\ hce_inflight = 0
    /\ LiveSessions = {}
    /\ \A k \in Slots : sessions[k].tx = <<>>
    /\ \A k \in DOMAIN discoveries : ~discoveries[k].running

\* C3: an activation has ended, with is_activating FALSE, once nothing is under
\* way any more.
C3_ActivationEnds == StreamerQuiescent => ~mgr.is_activating

\* C5: at most one session task of the StreamMagicManager is alive at a time.
C5_OneLiveSession == Cardinality(LiveSessions) <= 1

\* C6: a session whose run() has returned an error has set and sent the status
\* Disconnected before.
C6_FaultIsReported ==
    \A k \in Slots :
        (sessions[k].phase = "returned" /\ sessions[k].result = "err")
            => sessions[k].status.state = "Disconnected"

\* C7: the manager's status is Connecting only while the connect of its
\* session is still to be decided or a status of that session is still to be
\* handled.
C7_ConnectingIsDecided ==
    mgr.ws_client_status.state = "Connecting" =>
        /\ mgr.ws_client_receive_channel # 0
        /\ \/ sessions[mgr.ws_client_receive_channel].phase \in {"spawned", "connecting"}
           \/ sessions[mgr.ws_client_receive_channel].tx # <<>>

\* C8, as stated: with the status Connected exactly one device is active.
C8_ConnectedExactlyOneActive ==
    mgr.ws_client_status.state = "Connected"
        => Cardinality(ActiveDevices(mgr.devices)) = 1

\* The manager has just handled a message that marks the connected device:
\* Connected for a new connection, or a discovered device while Connected.
JustMarked ==
    /\ mgr.ws_client_status.state = "Connected"
    /\ \/ handled.src = "client" /\ handled.kind = "Connected" /\ ~handled.status.existing
       \/ handled.src = "inbox" /\ handled.kind = "ProcessDiscoveredDevice"

ConnectedHostDevices ==
    {i \in DOMAIN mgr.devices :
        mgr.devices[i].url.host = mgr.ws_client_status.url.host}

\* C8, amended: once the manager has handled Connected for a new connection, or
\* a discovered device while Connected, the first device of the connected host
\* is the one active device, and no device is active when the list has no
\* device of that host.
C8_ConnectedDeviceMarked ==
    JustMarked =>
        /\ \A i \in ActiveDevices(mgr.devices) :
              /\ i \in ConnectedHostDevices
              /\ \A j \in ConnectedHostDevices : i <= j
        /\ ConnectedHostDevices # {} => ActiveDevices(mgr.devices) # {}

\* C8: a device was discovered while Connected and, of the two devices listed,
\* the one of the connected host is active.
C8_Witness ==
    /\ JustMarked
    /\ handled.kind = "ProcessDiscoveredDevice"
    /\ Len(mgr.devices) >= 2
    /\ Cardinality(ActiveDevices(mgr.devices)) = 1

\* The connection test of the manager is still under way somewhere: its
\* request, the session's test, or a status or error of the session is pending.
TestUnderWay ==
    \/ mgr_pc # "select"
    \/ inbox # <<>>
    \/ hce_inflight > 0
    \/ \E k \in Slots :
          \/ sessions[k].tx # <<>>
          \/ sessions[k].rx # <<>>
          \/ sessions[k].phase \in {"spawned", "connecting", "returned"}
          \/ sessions[k].status.state = "TestingConnection"

\* C10: is_testing_connection is TRUE only while the test is under way, so
\* that its end clears the flag.
C10_TestEnds == mgr.is_testing_connection => TestUnderWay

\* The AmplifierManager has run the whole Disconnected arm for the status it
\* handled last
AmpDisconnectedHandled ==
    /\ amp_handled.src = "handler"
    /\ amp_handled.kind = "Disconnected"
    /\ amp_pc = "select"

LiveHandlers == {k \in HandlerSlots : handlers[k].phase \in {"spawned", "running", "returned"}}

AmpStatusesHandled ==
    /\ amp_pc = "select"
    /\ \/ amp.amp_handler_receive_channel = 0
       \/ handlers[amp.amp_handler_receive_channel].tx = <<>>

\* C9: once every status a handler has sent is handled, is_handling_amplifier
\* is true if and only if a handler task is alive and has emitted Connected.
C9_HandlingIffConnectedHandler ==
    AmpStatusesHandled =>
        (amp.is_handling_amplifier <=>
            \E k \in LiveHandlers : handlers[k].connection_status = "Connected")

\* The connection test of the AmplifierManager is still under way somewhere:
\* its request is on the way to the handler, the handler waits for the power
\* response, or a status of a handler is still to be handled.
AmpTestUnderWay ==
    \/ amp_pc # "select"
    \/ amp_inbox # <<>>
    \/ \E k \in HandlerSlots :
          \/ handlers[k].tx # <<>>
          \/ handlers[k].rx # <<>>
          \/ handlers[k].connection_test_under_way
          \/ handlers[k].phase \in {"spawned", "returned"}

\* C11: the AmplifierManager's is_testing_connection is TRUE only while its
\* test is under way, so that the power response and the Disconnected status
\* that end a test both leave the flag FALSE.
C11_AmpTestEnds == amp.is_testing_connection => AmpTestUnderWay

\* The status the manager handled last is the Disconnected of a session whose
\* connection test got no pong
PongTimeoutHandled ==
    /\ handled.src = "client"
    /\ handled.kind = "Disconnected"
    /\ handled.status.reason = "WebSocketClient test failed (pong timeout)"

\* C12: when the manager has handled the Disconnected status of a test without
\* a pong, the status asked for a reconnect, the manager has left test mode
\* and, a last-active device being known, it holds a new session task for
\* that device.
C12_DeadTestReactivates ==
    PongTimeoutHandled /\ mgr.last_active_device # NoDevice =>
        /\ handled.status.consider_reconnecting
        /\ ~mgr.is_testing_connection
        /\ mgr.ws_client_join_handle # 0
        /\ sessions[mgr.ws_client_join_handle].phase # "free"

\* What a Connected status does to the manager, the store and the sessions
\* when it does nothing but clear is_testing_connection and update the status
OnlyTestCleared ==
    /\ store' = store
    /\ \A k \in Slots : sessions'[k].rx = sessions[k].rx
    /\ mgr'.devices = mgr.devices
    /\ mgr'.last_active_device = mgr.last_active_device
    /\ mgr'.is_activating = mgr.is_activating
    /\ mgr'.activation_attempts = mgr.activation_attempts
    /\ mgr'.activating_duration = mgr.activating_duration
    /\ mgr'.is_discovering = mgr.is_discovering
    /\ ~mgr'.is_testing_connection
    /\ mgr'.ws_client_status = ClientStatus

\* C13: handling a Connected status with existing = TRUE leaves the persisted
\* host, the session's channel (no subscription, no queue-list request), the
\* devices and last_active_device as they are, and of the manager's state
\* changes only is_testing_connection, to FALSE, and the status.
C13_ExistingConnectedOnlyClearsTest ==
    [][MgrClientConnected /\ ClientStatus.existing => OnlyTestCleared]_vars

\* The texts a session is sent for a new connection: the subscription to each
\* of the nine update paths, then the request for the queue list
NewConnectionRequests ==
    << DataMsg("/presets/list", ""), DataMsg("/queue/info", ""),
       DataMsg("/system/info", ""), DataMsg("/system/power", ""),
       DataMsg("/system/sources", ""), DataMsg("/zone/now_playing", ""),
       DataMsg("/zone/play_state", ""), DataMsg("/zone/play_state/position", ""),
       DataMsg("/zone/state", ""), DataMsg("/queue/list", "") >>

\* C14: in the one step in which it handles a Connected status with
\* existing = FALSE, the manager persists the host of the status as
\* last_connected_host and, the session task not having ended, adds to the
\* session's channel the nine subscriptions, one per update path in the order
\* of register_for_streammagic_updates, followed by one queue-list request,
\* and nothing else.
C14_NewConnectionSubscribes ==
    [][MgrClientConnected /\ ~ClientStatus.existing =>
          /\ store' = ClientStatus.url.host
          /\ LET k == mgr.ws_client_send_channel
             IN  k # 0 /\ sessions[k].phase # "done" =>
                    sessions'[k].rx = sessions[k].rx \o NewConnectionRequests]_vars

\* C14: a new connection has been handled and its session holds the ten
\* requests, the nine subscriptions being pairwise different
C14_Witness ==
    /\ handled.src = "client"
    /\ handled.kind = "Connected"
    /\ ~handled.status.existing
    /\ store = handled.status.url.host
    /\ mgr.ws_client_send_channel # 0
    /\ sessions[mgr.ws_client_send_channel].rx = NewConnectionRequests
    /\ Cardinality({NewConnectionRequests[i].path : i \in 1..9}) = 9

\* Nothing of a session is left for the manager to handle: no session task is
\* alive and no status waits in a session's channel
SessionsSettled ==
    /\ mgr_pc = "select"
    /\ LiveSessions = {}
    /\ \A k \in Slots : sessions[k].tx = <<>>

\* C15: from the moment Deactivate is handled while the session is connected
\* and no test is in progress, until the next explicit request is handled,
\* the manager holds and spawns no session task and the last-active device of
\* that moment stays the last-active device; and once the stopped session has
\* ended and its statuses are handled, no device is active, is_activating is
\* FALSE and the status is Disconnected.
C15_DeactivateStays ==
    handled.deactivated /\ mgr_pc = "select" =>
        /\ mgr.ws_client_join_handle = 0
        /\ \A k \in Slots : sessions[k].phase \notin {"spawned", "connecting"}
        /\ handled.last_active_device # NoDevice =>
              mgr.last_active_device.udn = handled.last_active_device.udn
        /\ SessionsSettled =>
              /\ ActiveDevices(mgr.devices) = {}
              /\ ~mgr.is_activating
              /\ mgr.ws_client_status.state = "Disconnected"

\* C16: no two devices of the manager's device list have the same UDN.
C16_NoDuplicateUdn ==
    \A i, j \in DOMAIN mgr.devices :
        mgr.devices[i].udn = mgr.devices[j].udn => i = j

\* The manager's session is connected: the manager has recorded the status
\* Connected and the session task has not ended
SessionConnected ==
    /\ mgr.ws_client_status.state = "Connected"
    /\ mgr.ws_client_send_channel # 0
    /\ sessions[mgr.ws_client_send_channel].phase # "done"

\* C17: the step in which the manager handles a StreamerAction puts nothing
\* into a session's channel unless the session is connected, so that the
\* action's text is not written to the device later on.
C17_ActionForwardedOnlyWhenConnected ==
    [][MgrStreamerAction /\ ~SessionConnected =>
          \A k \in Slots : sessions'[k].rx = sessions[k].rx]_vars


\* Params of the shape the payload types expect
WellFormedParams == {"p1", "p2"}

\* C18: a payload slot changes in a step only when the manager handles a text
\* of the session that is a StreamMagicMessage for the slot's path with
\* well-formed params, and the slot then holds these params; every other step
\* (a text that fails to deserialize, Disconnected, Deactivate, a new session)
\* leaves every slot as it was.
C18_SlotChangesOnlyOnDecodedMessage ==
    [][\A path \in PayloadPaths :
          mgr'.payloads[path] # mgr.payloads[path] =>
              /\ MgrClientDataMsg
              /\ LET message == Head(sessions[mgr.ws_client_receive_channel].tx)
                 IN  /\ message.path = path
                     /\ message.params \in WellFormedParams
                     /\ mgr'.payloads[path] = message.params]_vars

\* A slot still holds its payload after the session was deactivated, the
\* Disconnected of the session was handled and no session is left
C18_Witness ==
    /\ mgr.payloads["/zone/play_state/position"] \in WellFormedParams
    /\ handled.src = "client"
    /\ handled.kind = "Disconnected"
    /\ handled.deactivated
    /\ mgr.ws_client_join_handle = 0


\* The app logs among the events emitted while the last message was handled
AppLogEvents(m) ==
    LET logs == SelectSeq(m.emitted_events, LAMBDA e : e.event = "AppLog")
    IN  [i \in DOMAIN logs |-> logs[i].payload]

\* C19: an EmitAppLog handled while ui_ready is false is appended to the
\* buffer and no log is emitted; handling OnUIReady emits the buffered logs in
\* the order they were inserted and empties the buffer; an EmitAppLog handled
\* while ui_ready is true is emitted at once; ui_ready never becomes false
\* again and the buffer is empty whenever ui_ready is true.
C19_LogsBufferedUntilUiReady ==
    /\ [](mgr.ui_ready => mgr.buffered_app_logs = <<>>)
    /\ [][/\ mgr.ui_ready => mgr'.ui_ready
          /\ MgrEmitAppLog /\ ~mgr.ui_ready =>
                /\ mgr'.buffered_app_logs =
                       Append(mgr.buffered_app_logs, Head(inbox).app_log)
                /\ AppLogEvents(mgr') = <<>>
                /\ ~mgr'.ui_ready
          /\ MgrEmitAppLog /\ mgr.ui_ready =>
                AppLogEvents(mgr') = <<Head(inbox).app_log>>
          /\ MgrOnUIReady =>
                /\ mgr'.ui_ready
                /\ AppLogEvents(mgr') = mgr.buffered_app_logs
                /\ mgr'.buffered_app_logs = <<>>]_vars

\* OnUIReady has just been handled and has emitted two buffered logs
C19_Witness ==
    /\ handled.kind = "OnUIReady"
    /\ mgr.ui_ready
    /\ AppLogEvents(mgr) = <<1, 2>>
    /\ mgr.buffered_app_logs = <<>>


\* C20: with an amplifier that never sends a frame, every handler ends with
\* Disconnected once the heartbeat is overdue, and the Disconnected arm spawns
\* at most max_reconnect_attempts handlers before it gives up.
C20_SilentAmplifierGivenUp == amp_handled.reconnects <= max_reconnect_attempts


\* The sleep stated for the attempt that follows n earlier attempts
StatedDelay(n) == IF n = 0 THEN 0 ELSE Min(base_delay * Pow2(n - 1), max_delay)

\* C21: an activation attempt that follows n >= 1 earlier attempts of the same
\* activation sleeps min(100 ms * 2^(n-1), 1500 ms): as long as the activation
\* budget is not used up, the time the activation has taken grows by exactly
\* that much in the step that counts the attempt.
C21_BackoffSleeps ==
    [][/\ mgr'.activation_attempts = mgr.activation_attempts + 1
       /\ mgr.activation_attempts >= 1
       /\ mgr'.activating_duration <= activation_timeout
       => mgr'.activating_duration - mgr.activating_duration
              = StatedDelay(mgr.activation_attempts)]_vars


RunOver == {"free", "returned", "done"}

\* No WebSocketClient and no HegelAmplifierHandler is running
AllTasksOver ==
    /\ \A k \in Slots : sessions[k].phase \in RunOver
    /\ \A k \in HandlerSlots : handlers[k].phase \in RunOver

\* C23: run() of either manager has left its loop only if the message it
\* handled last is ShutDown, and then it holds no join handle and run() of
\* every session it has spawned has returned; whatever else happens (a failed connect, a closed or
\* broken connection, a discovery) leaves the loop running.  Once the
\* AmplifierManager has handled ShutDown, no handler task is spawned.
C23_RunEndsOnlyOnShutDown ==
    /\ [](mgr_pc = "ended" =>
            /\ handled.src = "inbox" /\ handled.kind = "ShutDown"
            /\ mgr.ws_client_join_handle = 0
            /\ \A k \in Slots : sessions[k].phase \in RunOver)
    /\ [](amp_pc = "ended" =>
            /\ amp_handled.src = "inbox" /\ amp_handled.kind = "ShutDown"
            /\ amp.amp_handler_join_handle = 0
            /\ \A k \in HandlerSlots : handlers[k].phase \in RunOver)
    /\ [][amp.is_shutting_down =>
            \A k \in HandlerSlots :
                handlers'[k].phase = "spawned" => handlers[k].phase = "spawned"]_vars

\* Both managers have ended after ShutDown reached them with a connected
\* session and a managed amplifier
C23_Witness ==
    /\ mgr_pc = "ended"
    /\ amp_pc = "ended"
    /\ mgr.ws_client_status.state = "Connected"
    /\ amp.is_handling_amplifier
    /\ AllTasksOver

---------------------------------------------------------------------------
(* The codec by itself: a line is parsed; a command is formatted into a    *)
(* Frame, and the Frame is parsed as it is, or written, read back from the *)
(* bytes and then parsed.                                                  *)

MaxNumber == 300

CommandCodes == {"e", "i", "m", "p", "v"}

\* The strings the specification lists as invalid
InvalidStrings ==
    {<<>>, <<"v">>, <<"1", "0">>, <<"v", ".", "1", "0">>, <<"-", "v", "1", "0">>,
     <<"-", "v", ".", "1", "0", ".", "9", "0">>, <<"-", "f", ".", "1", "0">>,
     <<"-", "p", ".", "-", "1">>, <<"-", "p", ".", "2">>, <<"-", "p", ".", "i">>,
     <<"-", "i", ".", "0">>, <<"-", "i", ".", "1", "4">>, <<"-", "v", ".", "-", "1">>,
     <<"-", "v", ".", "1", "0", "1">>, <<"-", "m", ".", "2">>}

CodecValues ==
    {Decimal(n) : n \in 0..MaxNumber}
    \cup {<<sign>> \o Decimal(n) : sign \in {"+", "-", "0"}, n \in 0..14}
    \cup {<<>>, <<"t">>, <<"i">>, <<"?">>, <<"+">>, <<"1", CR>>, <<"1", LF>>,
          <<"1", ".", "5">>, <<"1", " ">>, <<"x", LF, "y">>}

CodecLines ==
    InvalidStrings
    \cup {<<"-", c, ".">> \o v : c \in CommandCodes \cup {"f"}, v \in CodecValues}
    \cup {<<"-", c>> \o v : c \in CommandCodes, v \in {Decimal(n) : n \in 0..14}}
    \cup {<<c, ".">> \o v : c \in CommandCodes, v \in {Decimal(n) : n \in 0..14}}
    \cup {<<" ", "-", c, ".">> \o v : c \in CommandCodes, v \in {Decimal(n) : n \in 0..1}}

ValidCommands ==
    {HegelCommand(kind, Some(b)) : kind \in {"Mute", "Power"}, b \in BOOLEAN}
    \cup {HegelCommand("Source", Some(n)) : n \in 1..13}
    \cup {HegelCommand("Volume", Some(n)) : n \in 0..100}

CodecCommands ==
    ValidCommands
    \cup {HegelCommand("Source", Some(n)) : n \in {0, 14, 255}}
    \cup {HegelCommand("Volume", Some(n)) : n \in {101, 255}}
    \cup {HegelCommand("Mute", NoBool), HegelCommand("Power", NoBool),
          HegelCommand("Source", NoU8), HegelCommand("Volume", NoU8),
          HegelCommand("Error", <<"x">>)}

\* HegelCommand::try_from(Frame::Data(line))
CodecParse ==
    /\ codec.step = "line"
    /\ codec' = [codec EXCEPT !.step = "parsed",
                              !.parsed = command_from_frame(codec.line)]
    /\ UNCHANGED <<streamer_vars, amp_vars, hegel_connection>>

\* Frame::try_from(command)
CodecFormat ==
    /\ codec.step = "command"
    /\ codec' = [codec EXCEPT !.step = "formatted",
                              !.frame = frame_from_command(codec.command)]
    /\ UNCHANGED <<streamer_vars, amp_vars, hegel_connection>>

\* HegelCommand::try_from of the Frame that Frame::try_from has made
CodecParseFrame ==
    /\ codec.step = "formatted"
    /\ codec.frame.ok
    /\ codec' = [codec EXCEPT !.step = "frame parsed",
                              !.parsed = command_from_frame(codec.frame.data)]
    /\ UNCHANGED <<streamer_vars, amp_vars, hegel_connection>>

\* write_frame puts the Frame's bytes on the wire and Frame::parse reads a
\* Frame from them
CodecReadFrame ==
    /\ codec.step = "formatted"
    /\ codec.frame.ok
    /\ codec' = [codec EXCEPT !.step = "read", !.read = parse(codec.frame.data)]
    /\ UNCHANGED <<streamer_vars, amp_vars, hegel_connection>>

\* HegelCommand::try_from of the Frame read from the wire
CodecParseRead ==
    /\ codec.step = "read"
    /\ codec.read.result = "Ok"
    /\ codec' = [codec EXCEPT !.step = "read parsed",
                              !.parsed = command_from_frame(codec.read.data)]
    /\ UNCHANGED <<streamer_vars, amp_vars, hegel_connection>>

CodecInit ==
    /\ StreamerStart
    /\ store = "h1"
    /\ ui_budget = MaxUiActions
    /\ ui_inflight = <<>>
    /\ env_budget = NoFeed
    /\ AmpStart
    /\ hegel_connection = NoConnection
    /\ codec \in {[NoCodec EXCEPT !.step = "line", !.line = line] : line \in CodecLines}
            \cup {[NoCodec EXCEPT !.step = "command", !.command = command] :
                    command \in CodecCommands}

CodecNext ==
    \/ CodecParse
    \/ CodecFormat
    \/ CodecParseFrame
    \/ CodecReadFrame
    \/ CodecParseRead

CodecSpec == CodecInit /\ [][CodecNext]_vars

\* The grammar -<code>.<value> and the ranges of the values, as stated
MatchesGrammar(line) ==
    /\ Len(line) >= 3
    /\ line[1] = "-"
    /\ line[2] \in CommandCodes
    /\ line[3] = "."

ValueOf(line) == SubSeq(line, 4, Len(line))

Unsigned(value) ==
    IF value # <<>> /\ Head(value) \in {"+", "-"} THEN Tail(value) ELSE value

IsNumeric(value) ==
    /\ Unsigned(value) # <<>>
    /\ \A i \in DOMAIN Unsigned(value) : IsDigit(Unsigned(value)[i])

NumberOf(value) ==
    IF Head(value) = "-" THEN 0 - DigitsValue(Unsigned(value))
    ELSE DigitsValue(Unsigned(value))

InRange(command_code, value) ==
    CASE command_code \in {"m", "p"} -> value \in {<<"0">>, <<"1">>}
      [] command_code = "i" -> IsNumeric(value) /\ NumberOf(value) \in 1..13
      [] command_code = "v" -> IsNumeric(value) /\ NumberOf(value) \in 0..100
      [] OTHER -> TRUE

\* C26: the parser returns an error, never a command, for every line that
\* does not match the grammar -<code>.<value> with a code of e, i, m, p, v and
\* for every value outside the range of its kind (mute and power other than
\* 0 or 1, source not a number of 1..13, volume not a number of 0..100).
C26_InvalidLinesRejected ==
    codec.step = "parsed" =>
        /\ ~MatchesGrammar(codec.line) => ~codec.parsed.ok
        /\ (MatchesGrammar(codec.line)
                /\ ~InRange(codec.line[2], ValueOf(codec.line))) => ~codec.parsed.ok

C26_Witness ==
    /\ codec.step = "parsed"
    /\ codec.line = <<"-", "v", ".", "1", "0", "1">>
    /\ ~codec.parsed.ok
    /\ codec.parsed.error = "Volume value out of range (valid is 0-100)"


---------------------------------------------------------------------------
(* One HegelConnection in the run loop of its HegelAmplifierHandler.       *)
(* stream is what the amplifier has still to send and peer_closed whether  *)
(* it has closed its end; received is every byte read so far, frames the   *)
(* Frames read_frame has handed to the loop, written the bytes written     *)
(* since the loop was entered and action the AmplifierAction sent last.    *)
(* pc is "parse" where read_frame is to call parse_frame, "read" where it  *)
(* awaits read_buf, "ended" after the break.                               *)

MaxPieces == 4
MaxHegelActions == 1

Running == hegel_connection.pc \in {"parse", "read"}

\* read_frame's call of parse_frame, and the loop's arm for what it returns:
\* a Frame is handled and read_frame is called again, None goes on to
\* read_buf, an Err sets the status Disconnected and breaks
HegelParseFrame ==
    /\ hegel_connection.pc = "parse"
    /\ LET r == parse_frame(hegel_connection.buffer)
       IN  hegel_connection' =
             CASE r.result = "Some" ->
                    [hegel_connection EXCEPT !.buffer = r.buffer,
                                             !.frames = Append(@, r.data)]
               [] r.result = "None" ->
                    [hegel_connection EXCEPT !.pc = "read", !.buffer = r.buffer]
               [] r.result = "Err" ->
                    [hegel_connection EXCEPT !.pc = "ended",
                                             !.connection_status = "Disconnected"]
    /\ UNCHANGED <<streamer_vars, amp_vars, codec>>

\* read_frame's read_buf: some bytes of the stream arrive; or none, the
\* amplifier having closed: Ok(None) breaks the loop when the buffer is empty,
\* and a connection reset sets the status Disconnected and breaks otherwise
HegelReadBuf ==
    /\ hegel_connection.pc = "read"
    /\ \/ \E n \in 1..Len(hegel_connection.stream) :
            hegel_connection' =
                [hegel_connection EXCEPT
                    !.pc = "parse",
                    !.buffer = @ \o SubSeq(hegel_connection.stream, 1, n),
                    !.received = @ \o SubSeq(hegel_connection.stream, 1, n),
                    !.stream = SubSeq(@, n + 1, Len(@))]
       \/ /\ hegel_connection.stream = <<>>
          /\ hegel_connection.peer_closed
          /\ hegel_connection' =
                IF hegel_connection.buffer = <<>>
                THEN [hegel_connection EXCEPT !.pc = "ended"]
                ELSE [hegel_connection EXCEPT !.pc = "ended",
                                              !.connection_status = "Disconnected"]
    /\ UNCHANGED <<streamer_vars, amp_vars, codec>>

\* The amplifier closes its end of the connection
HegelPeerClose ==
    /\ Running
    /\ ~hegel_connection.peer_closed
    /\ hegel_connection' = [hegel_connection EXCEPT !.peer_closed = TRUE]
    /\ UNCHANGED <<streamer_vars, amp_vars, codec>>

\* The loop's arm for an AmplifierActionMsg: send_action_to_amplifier.  A
\* Frame that could not be made and a write that failed are only logged.
HegelSendAction(action) ==
    /\ Running
    /\ hegel_connection.actions > 0
    /\ LET frame == hegel_frame_result(action)
       IN  \E failed \in (IF hegel_connection.peer_closed THEN BOOLEAN ELSE {FALSE}) :
             hegel_connection' =
                [hegel_connection EXCEPT
                    !.actions = @ - 1,
                    !.action = action,
                    !.write_failed = frame.ok /\ failed,
                    !.written = IF frame.ok /\ ~failed THEN @ \o frame.data ELSE @]
    /\ UNCHANGED <<streamer_vars, amp_vars, codec>>

\* The handler has connected and made its HegelConnection
Connection(stream, actions) ==
    [NoConnection EXCEPT !.pc = "parse", !.stream = stream,
                         !.connection_status = "Connected", !.actions = actions]

HegelStart ==
    /\ StreamerStart
    /\ store = "h1"
    /\ ui_budget = MaxUiActions
    /\ ui_inflight = <<>>
    /\ env_budget = NoFeed
    /\ AmpStart
    /\ codec = NoCodec

\* Actions sent to an amplifier that reports its power once
SendInit ==
    /\ HegelStart
    /\ hegel_connection = Connection(<<"-", "p", ".", "1", CR>>, MaxHegelActions)

SendNext ==
    \/ HegelParseFrame
    \/ HegelReadBuf
    \/ HegelPeerClose
    \/ \E action \in AmplifierActions : HegelSendAction(action)

SendSpec == SendInit /\ [][SendNext]_vars

\* The line stated for a number: the digits of n and nothing else
IsNumeral(digits, n) ==
    /\ digits # <<>>
    /\ \A i \in DOMAIN digits : IsDigit(digits[i])
    /\ Len(digits) > 1 => digits[1] # "0"
    /\ DigitsValue(digits) = n

\* bytes is the one line -<code>.<n> closed by CR
IsNumberLine(bytes, command_code, n) ==
    /\ Len(bytes) >= 5
    /\ SubSeq(bytes, 1, 3) = <<"-", command_code, ".">>
    /\ bytes[Len(bytes)] = CR
    /\ IsNumeral(SubSeq(bytes, 4, Len(bytes) - 1), n)

\* bytes is what is stated to be written for the action
IsStatedWrite(bytes, action) ==
    CASE action.kind = "MuteSet" ->
            bytes = <<"-", "m", ".", IF action.value THEN "1" ELSE "0", CR>>
      [] action.kind = "MuteToggle" -> bytes = <<"-", "m", ".", "t", CR>>
      [] action.kind = "PowerSet" ->
            bytes = <<"-", "p", ".", IF action.value THEN "1" ELSE "0", CR>>
      [] action.kind = "PowerToggle" -> bytes = <<"-", "p", ".", "t", CR>>
      [] action.kind = "SourceSet" ->
            IF action.value \in 1..13 THEN IsNumberLine(bytes, "i", action.value)
            ELSE bytes = <<>>
      [] action.kind = "VolumeSet" ->
            IF action.value \in 0..100 THEN IsNumberLine(bytes, "v", action.value)
            ELSE bytes = <<>>
      [] action.kind = "VolumeUp" -> bytes = <<"-", "v", ".", "u", CR>>
      [] action.kind = "VolumeDown" -> bytes = <<"-", "v", ".", "d", CR>>

\* What a step has written
Written ==
    SubSeq(hegel_connection'.written, Len(hegel_connection.written) + 1,
           Len(hegel_connection'.written))

\* C27: sending an AmplifierAction writes exactly the one CR-terminated line
\* stated for it after what was written before (-m.0 or -m.1, -m.t, -p.0 or
\* -p.1, -p.t, -i.n for n in 1..13, -v.n for n in 0..100, -v.u, -v.d), and
\* writes nothing for a SourceSet or VolumeSet out of its range; no other step
\* of the loop writes.
C27_ActionsWrittenAsStated ==
    [][/\ SubSeq(hegel_connection'.written, 1, Len(hegel_connection.written))
            = hegel_connection.written
       /\ IF hegel_connection'.actions < hegel_connection.actions
          THEN ~hegel_connection'.write_failed =>
                    IsStatedWrite(Written, hegel_connection'.action)
          ELSE hegel_connection'.written = hegel_connection.written]_vars

C27_Witness ==
    /\ hegel_connection.actions < MaxHegelActions
    /\ hegel_connection.action = AmplifierAction("VolumeSet", 100)
    /\ hegel_connection.written = <<"-", "v", ".", "1", "0", "0", CR>>


\* What an amplifier sends: runs of the pieces, among them a byte that is not
\* UTF-8
Pieces == {<<"-", "v", ".", "2", "5">>, <<"-", "m", ".", "1">>, <<CR>>, <<NotUtf8>>}

RECURSIVE Streams(_)
Streams(n) ==
    IF n = 0 THEN {<<>>}
    ELSE Streams(n - 1) \cup {s \o p : s \in Streams(n - 1), p \in Pieces}

\* The read arm alone, on any of the streams however split across the reads
ReadInit ==
    /\ HegelStart
    /\ \E stream \in Streams(MaxPieces) : hegel_connection = Connection(stream, 0)

ReadNext ==
    \/ HegelParseFrame
    \/ HegelReadBuf
    \/ HegelPeerClose

ReadSpec == ReadInit /\ [][ReadNext]_vars

\* The lines of the bytes: each run of bytes up to a CR, in order
RECURSIVE Lines(_)
Lines(bytes) ==
    LET l == get_line(bytes, 1)
    IN  IF ~l.complete THEN <<>>
        ELSE <<l.line>> \o Lines(SubSeq(bytes, l.position, Len(bytes)))

\* The bytes after the last CR
RECURSIVE Rest(_)
Rest(bytes) ==
    LET l == get_line(bytes, 1)
    IN  IF ~l.complete THEN bytes ELSE Rest(SubSeq(bytes, l.position, Len(bytes)))

\* The lines that are text
RECURSIVE SelectText(_)
SelectText(lines) ==
    IF lines = <<>> THEN <<>>
    ELSE (IF from_utf8(Head(lines)) THEN <<Head(lines)>> ELSE <<>>)
            \o SelectText(Tail(lines))

\* C24: when the session parses a buffer that begins with a CR-terminated
\* line that is not valid UTF-8, it steps over the line and goes on: its
\* status stays Connected, its loop does not end, and the line with its CR
\* has left the buffer.
C24_InvalidUtf8Skipped ==
    [][(/\ HegelParseFrame
        /\ parse(hegel_connection.buffer).result = "Parse")
        => /\ hegel_connection'.pc # "ended"
           /\ hegel_connection'.connection_status = "Connected"
           /\ Len(hegel_connection'.buffer)
                <= Len(hegel_connection.buffer)
                    - (get_line(hegel_connection.buffer, 1).position - 1)]_vars

\* C28: the read path frames the stream at CR.  Whenever read_frame is not
\* about to parse, the Frames handed over are, in order, the lines of text
\* among the bytes received, each the bytes up to its CR without it, and the
\* buffer holds the bytes after the last CR, for which there is no Frame yet.
C28_FramesAtCR ==
    hegel_connection.pc \in {"read", "ended"} =>
        /\ hegel_connection.frames = SelectText(Lines(hegel_connection.received))
        /\ hegel_connection.buffer = Rest(hegel_connection.received)

---------------------------------------------------------------------------
\* A session task is spawned in the step
SessionSpawned ==
    \E k \in Slots : sessions[k].phase # "spawned" /\ sessions'[k].phase = "spawned"

\* After the step the manager holds a newly spawned session for the listed
\* device of the UDN
NewSessionFor(udn) ==
    LET h == mgr'.ws_client_join_handle
    IN  /\ h # 0
        /\ sessions[h].phase # "spawned"
        /\ sessions'[h].phase = "spawned"
        /\ mgr'.ws_client_send_channel = h
        /\ mgr'.ws_client_receive_channel = h
        /\ \E i \in UdnMatches(mgr.devices, udn) :
                sessions'[h].url = StreamerUrl(host_from_url(mgr.devices[i].url))

\* The activation under way, if any, is within its budget
WithinBudget == mgr.is_activating => mgr.activating_duration <= activation_timeout

C30_DisconnectedNoneActive ==
    mgr.ws_client_status.state = "Disconnected" => ActiveDevices(mgr.devices) = {}


---------------------------------------------------------------------------
(* The session arm of each manager's select! on a closed channel *)

\* The receiver the manager holds is of a finished task and holds no message:
\* recv() returns None at once
ClientChannelClosed ==
    /\ mgr.ws_client_receive_channel # 0
    /\ sessions[mgr.ws_client_receive_channel].phase = "done"
    /\ sessions[mgr.ws_client_receive_channel].tx = <<>>

HandlerChannelClosed ==
    /\ amp.amp_handler_receive_channel # 0
    /\ handlers[amp.amp_handler_receive_channel].phase = "done"
    /\ handlers[amp.amp_handler_receive_channel].tx = <<>>

\* The arm of the session's channel completes with None: nothing is done and
\* run() goes round its loop
MgrClientClosed ==
    /\ mgr_pc = "select"
    /\ ClientChannelClosed
    /\ Leave(Done(Ctx))
    /\ handled' = [ClientMsg(DisconnectedDefault) EXCEPT !.kind = "None"]
    /\ UNCHANGED inbox

AmpMgrHandlerClosed ==
    /\ amp_pc = "select"
    /\ HandlerChannelClosed
    /\ AmpLeave(AmpDone(AmpCtx))
    /\ amp_handled' = [amp_handled EXCEPT !.src = "handler", !.kind = "None"]
    /\ UNCHANGED amp_inbox

\* Both managers with no user: the streamer remembered or not, each session
\* open to a failed connect, a close and a read error
ClosedInit ==
    /\ StreamerStart
    /\ store \in PersistedHosts
    /\ ui_budget = 0
    /\ ui_inflight = <<>>
    /\ env_budget = NoFeed
    /\ AmpStart
    /\ HegelIdle

ClosedNext ==
    \/ MgrInitialize
    \/ MgrHandleClientError
    \/ MgrClientConnected
    \/ MgrClientDisconnected
    \/ MgrClientConnecting
    \/ MgrClientClosed
    \/ \E k \in Slots : SessConnecting(k)
    \/ \E k \in Slots : SessConnectOk(k)
    \/ \E k \in Slots : SessConnectErr(k)
    \/ \E k \in Slots : SessDataMsg(k)
    \/ \E k \in Slots : SessClose(k)
    \/ \E k \in Slots : SessReadErr(k)
    \/ \E k \in Slots : SessEnd(k)
    \/ SendHandleClientError
    \/ TimePasses
    \/ AmpMgrInitialize
    \/ AmpMgrProcessDiscoveredDevice
    \/ AmpMgrSetIsDiscovering
    \/ AmpMgrHandlerConnected
    \/ AmpMgrHandlerDisconnected
    \/ AmpMgrHandlerClosed
    \/ AmpMgrJoinDone
    \/ \E k \in HandlerSlots : HandlerConnectOk(k)
    \/ \E k \in HandlerSlots : HandlerConnectErr(k)
    \/ \E k \in HandlerSlots : HandlerCleanClose(k)
    \/ \E k \in HandlerSlots : HandlerReadErr(k)
    \/ \E k \in HandlerSlots : HandlerEnd(k)
    \/ \E k \in 1..MaxAmpDiscoveries, device \in NetworkRenderers :
            AmpDiscoverDevice(k, device)
    \/ \E k \in 1..MaxAmpDiscoveries : AmpDiscoverEnd(k)

ClosedSpec == ClosedInit /\ [][ClosedNext]_vars

\* C31: whenever a manager waits in its select! and the session task whose
\* receiver it holds has finished with its channel drained, the manager
\* holds no receiver, so that the session arm is disabled (the statement,
\* which the code does not meet).
C31_NoBusyLoop ==
    /\ mgr_pc = "select" => ~ClientChannelClosed
    /\ amp_pc = "select" => ~HandlerChannelClosed


---------------------------------------------------------------------------
(* The run loop of a HegelAmplifierHandler with its clock: the Power       *)
(* frames of the amplifier, the interval's ticks and the passing of time.  *)

connection_test_timeout == 1500
max_heartbeat_timeout == 10000

\* Time passes in steps of ClockStep ms; a handler's channel to the manager
\* takes MaxOutbox messages; the user sends up to MaxPowerUiActions commands
\* and the amplifier falls silent up to MaxPowerFaults times
ClockStep == 500
MaxOutbox == 2
MaxPowerUiActions == 1
MaxPowerFaults == 1

\* HegelAmplifierHandler::emit_amplifier_state
emit_amplifier_state(h, k) ==
    [h EXCEPT ![k].tx = IF amp.amp_handler_receive_channel = k
                        THEN Append(@, AmplifierStateMsg(h[k].amplifier_state))
                        ELSE @]

\* Every Power frame is taken for a change
PowerAlwaysChanged(handler_power, amplifier_power) == TRUE

\* The Power arm's test of the reported value against the known one
PowerChanged(handler_power, amplifier_power) ==
    IF handler_power.some
    THEN amplifier_power.some /\ handler_power.value # amplifier_power.value
    ELSE TRUE

\* The amplifier's frames -p.0 and -p.1
PowerFrames == {<<"-", "p", ".", "0">>, <<"-", "p", ".", "1">>}

\* read_frame yields a Power frame
HandlerPower(k, frame) ==
    LET amp_is_powered_on == command_from_frame(frame).command.value
        changed == PowerChanged(handlers[k].amplifier_state.is_powered_on,
                                amp_is_powered_on)
        h1 == [handlers EXCEPT
                 ![k].connection_test_under_way = FALSE,
                 ![k].test_duration = NoTime,
                 ![k].heartbeat_duration = 0,
                 ![k].last_power = IF changed THEN "changed" ELSE "unchanged",
                 ![k].amplifier_state.is_powered_on =
                     IF changed THEN amp_is_powered_on ELSE @]
    IN  /\ handlers[k].phase = "running"
        /\ Len(handlers[k].tx) < MaxOutbox
        /\ command_from_frame(frame).ok
        /\ command_from_frame(frame).command.kind = "Power"
        /\ handlers' = IF changed THEN emit_amplifier_state(h1, k) ELSE h1
        /\ AmpNoFault /\ HandlerStep

\* The frames request_initial_amplifier_state writes
InitialRequests(amplifier_state) ==
    (IF amplifier_state.is_muted.some THEN <<>>
     ELSE <<frame_from_string(request(HegelCommand("Mute", NoBool))).data>>)
    \o (IF amplifier_state.is_powered_on.some THEN <<>>
        ELSE <<frame_from_string(request(HegelCommand("Power", NoBool))).data>>)
    \o (IF amplifier_state.source.some THEN <<>>
        ELSE <<frame_from_string(request(HegelCommand("Source", NoU8))).data>>)
    \o (IF amplifier_state.volume.some THEN <<>>
        ELSE <<frame_from_string(request(HegelCommand("Volume", NoU8))).data>>)

request_initial_amplifier_state(h, k) ==
    [h EXCEPT ![k].written = IF InitialRequests(h[k].amplifier_state) = <<>> THEN @
                             ELSE InitialRequests(h[k].amplifier_state)]

\* The connection test has been unanswered for connection_test_timeout
TestTimedOutAtTimeout(handler) ==
    handler.test_duration # NoTime /\ handler.test_duration >= connection_test_timeout

\* The connection test has been unanswered for too long
TestTimedOut(handler) ==
    handler.test_duration # NoTime /\ handler.test_duration > connection_test_timeout

HeartbeatTimedOut(handler) == handler.heartbeat_duration > max_heartbeat_timeout

\* interval.tick(): the connection test, the heartbeat, the missing state
HandlerTick(k) ==
    /\ handlers[k].phase = "running"
    /\ handlers' =
          IF TestTimedOut(handlers[k]) \/ HeartbeatTimedOut(handlers[k])
          THEN HandlerReturn(
                   set_connection_status(shutdown(handlers, k), k, "Disconnected"),
                   k, "ok")
          ELSE request_initial_amplifier_state(handlers, k)
    /\ IF TestTimedOut(handlers[k]) \/ HeartbeatTimedOut(handlers[k])
       THEN AmpFault ELSE AmpNoFault
    /\ HandlerStep

\* ClockStep ms pass.  The interval ticks every 500 ms, so a tick that is to
\* end the handler is taken before more time passes.
HandlerTimePasses(k) ==
    /\ handlers[k].phase = "running"
    /\ ~TestTimedOut(handlers[k])
    /\ ~HeartbeatTimedOut(handlers[k])
    /\ handlers' = [handlers EXCEPT
            ![k].heartbeat_duration = @ + ClockStep,
            ![k].test_duration = IF @ = NoTime THEN @ ELSE @ + ClockStep]
    /\ AmpNoFault /\ HandlerStep

\* The AmplifierStateMsg arm
AmpMgrAmplifierState ==
    /\ amp_pc = "select"
    /\ amp.amp_handler_receive_channel # 0
    /\ handlers[amp.amp_handler_receive_channel].tx # <<>>
    /\ Head(handlers[amp.amp_handler_receive_channel].tx).type = "state"
    /\ AmpLeave(AmpDone([AmpCtxHandler EXCEPT !.m = set_amplifier_state(@,
            Head(handlers[amp.amp_handler_receive_channel].tx).amp_state)]))
    /\ amp_handled' = [amp_handled EXCEPT !.src = "handler", !.kind = "AmplifierState"]
    /\ UNCHANGED amp_inbox

\* The amplifier side with an amplifier that accepts every connection and
\* sends Power frames, and a user who sends TestConnection
PowerUiActions == {AmpTestConnection}

PowerInit ==
    /\ StreamerStart
    /\ store = "h1"
    /\ ui_budget = MaxUiActions
    /\ ui_inflight = <<>>
    /\ env_budget = NoFeed
    /\ amp = NewAmplifierManager
    /\ amp_pc = "init"
    /\ amp_cont = NoAmpCont
    /\ amp_handled = [src |-> "none", kind |-> "", disconnects |-> 0, reconnects |-> 0]
    /\ amp_inbox = <<>>
    /\ handlers = [k \in HandlerSlots |-> FreeHandler]
    /\ amp_discoveries = [k \in 1..MaxAmpDiscoveries |-> NoAmpDiscovery]
    /\ amp_ui_budget = MaxPowerUiActions
    /\ amp_fault_budget = MaxPowerFaults
    /\ HegelIdle

PowerNext ==
    \/ AmpMgrInitialize
    \/ AmpMgrProcessDiscoveredDevice
    \/ AmpMgrSetIsDiscovering
    \/ AmpMgrTestConnection
    \/ AmpMgrHandlerConnected
    \/ AmpMgrHandlerDisconnected
    \/ AmpMgrAmplifierState
    \/ AmpMgrJoinDone
    \/ \E k \in HandlerSlots : HandlerConnectOk(k)
    \/ \E k \in HandlerSlots, written \in BOOLEAN : HandlerTestConnection(k, written)
    \/ \E k \in HandlerSlots, frame \in PowerFrames : HandlerPower(k, frame)
    \/ \E k \in HandlerSlots : HandlerTick(k)
    \/ \E k \in HandlerSlots : HandlerTimePasses(k)
    \/ \E k \in HandlerSlots : HandlerEnd(k)
    \/ \E k \in 1..MaxAmpDiscoveries, device \in NetworkRenderers :
            AmpDiscoverDevice(k, device)
    \/ \E k \in 1..MaxAmpDiscoveries : AmpDiscoverEnd(k)
    \/ \E action \in PowerUiActions : AmpUiSend(action)

PowerSpec == PowerInit /\ [][PowerNext]_vars


\* The value a Power frame reports
Reported(frame) == frame[4] = "1"

\* C32: every inbound Power frame refreshes the heartbeat and clears a
\* pending connection test, whether or not the value changed; it makes the
\* handler send an AmplifierState to the manager, with the reported value,
\* exactly when is_powered_on was None or differs from the reported value,
\* so that a Power frame repeating the known value sends nothing.
C32_PowerMessages ==
    [][\A k \in HandlerSlots, frame \in PowerFrames :
         HandlerPower(k, frame) =>
            LET known == handlers[k].amplifier_state.is_powered_on
                differs == ~known.some \/ known.value # Reported(frame)
                sent == handlers'[k].tx # handlers[k].tx
            IN  /\ handlers'[k].heartbeat_duration = 0
                /\ handlers'[k].test_duration = NoTime
                /\ ~handlers'[k].connection_test_under_way
                /\ handlers'[k].amplifier_state.is_powered_on = Some(Reported(frame))
                /\ sent => differs
                /\ differs /\ amp.amp_handler_receive_channel = k => sent
                /\ sent => handlers'[k].tx =
                             Append(handlers[k].tx, AmplifierStateMsg(
                                 [handlers[k].amplifier_state EXCEPT
                                     !.is_powered_on = Some(Reported(frame))]))
    ]_vars

\* A Power frame that repeated the known value has refreshed the heartbeat
\* of a handler whose one AmplifierState the manager has taken
C32_Witness ==
    \E k \in HandlerSlots :
        /\ handlers[k].phase = "running"
        /\ handlers[k].last_power = "unchanged"
        /\ handlers[k].heartbeat_duration = 0
        /\ handlers[k].tx = <<>>
        /\ amp.amp_handler_receive_channel = k
        /\ amp.amp_state = handlers[k].amplifier_state


\* The Power request initiate_connection_test writes
PowerRequest == frame_from_string(request(HegelCommand("Power", NoBool))).data

\* PowerSpec with a scheduler that lets the clock run and takes the tick
\* that is to end a handler
PowerLiveSpec ==
    /\ PowerSpec
    /\ \A k \in HandlerSlots : WF_vars(HandlerTimePasses(k))
    /\ \A k \in HandlerSlots : WF_vars(HandlerTick(k))

\* The handler has sent status to the manager and nothing else
SentOnly(k, status) ==
    handlers'[k].tx = Append(handlers[k].tx, AmplifierHandlerConnectionStatusMsg(status))

\* C33: a TestConnection whose write succeeds writes the Power request and
\* starts the test's clock; a Power frame clears the pending test and leaves
\* the handler connected and running; a tick up to 1.5 s after the start
\* leaves the test pending, and the first tick later than that shuts the
\* socket down, sends one Disconnected and ends run(), after which the
\* handler sends nothing more; and a pending test ends, by a Power frame or
\* by that tick, whenever the amplifier may still fall silent.
C33_ConnectionTest ==
    /\ [][\A k \in HandlerSlots :
            /\ HandlerTestConnection(k, TRUE) =>
                  /\ handlers'[k].written = <<PowerRequest>>
                  /\ handlers'[k].test_duration = 0
            /\ (\E frame \in PowerFrames : HandlerPower(k, frame)) =>
                  /\ handlers'[k].test_duration = NoTime
                  /\ handlers'[k].phase = "running"
                  /\ handlers'[k].connection_status = "Connected"
            /\ HandlerTick(k) /\ handlers[k].test_duration # NoTime =>
                  IF handlers[k].test_duration > connection_test_timeout
                  THEN /\ handlers'[k].shut_down
                       /\ SentOnly(k, "Disconnected")
                       /\ handlers'[k].phase = "returned"
                  ELSE HeartbeatTimedOut(handlers[k])
                       \/ /\ handlers'[k].phase = "running"
                          /\ handlers'[k].test_duration = handlers[k].test_duration
                          /\ handlers'[k].tx = handlers[k].tx
            /\ handlers[k].phase \in {"returned", "done"}
               /\ handlers'[k].phase \in {"returned", "done"} =>
                  Len(handlers'[k].tx) <= Len(handlers[k].tx)
       ]_vars
    /\ \A k \in HandlerSlots :
          (handlers[k].test_duration # NoTime /\ amp_fault_budget > 0)
             ~> (handlers[k].test_duration = NoTime)

\* A handler whose connection test went unanswered has shut the socket
\* down and returned, its Disconnected the one message in its channel
C33_Witness ==
    \E k \in HandlerSlots :
        /\ handlers[k].phase = "returned"
        /\ handlers[k].shut_down
        /\ amp.is_testing_connection
        /\ handlers[k].tx = <<AmplifierHandlerConnectionStatusMsg("Disconnected")>>


\* C34: a discovery that is to activate what it finds requests an
\* activation for the first streamer it finds only: whenever an ActivateUdn
\* is about to be sent, the device it names is the only one seen so far (the
\* statement, which the code does not meet).
C34_OnlyFirstActivated ==
    \A k \in DOMAIN discoveries :
        discoveries[k].running /\ discoveries[k].activate_next # ""
            => discoveries[k].seen_udns = {discoveries[k].activate_next}


\* The session whose join handle the manager holds has not returned
SessionLive ==
    /\ mgr.ws_client_join_handle # 0
    /\ sessions[mgr.ws_client_join_handle].phase \in {"spawned", "connecting", "running"}

\* C35: a HandleClientError is raised by a task that has ended, so one
\* handled while the manager's session is live comes from a session already
\* replaced: it leaves that newer session as it is, neither sending it
\* ShutDown nor giving up its join handle (the statement, which the code does
\* not meet).
C35_StaleErrorLeavesNewerSession ==
    [][MgrHandleClientError /\ SessionLive =>
          /\ mgr'.ws_client_join_handle = mgr.ws_client_join_handle
          /\ sessions'[mgr.ws_client_join_handle].rx =
                sessions[mgr.ws_client_join_handle].rx
      ]_vars


---------------------------------------------------------------------------
(* The session's channel to the manager with its capacity.  A send into a *)
(* full channel waits for room: the message is kept behind the channel's   *)
(* ChannelCapacity messages and the sender takes no step until it fits.    *)

ChannelCapacity == 32

\* The texts the streamer sends
MaxTexts == 33

\* The session waits in tx_channel.send() for room in the channel
Blocked(k) ==
    /\ mgr.ws_client_receive_channel = k
    /\ Len(sessions[k].tx) > ChannelCapacity

\* A text that is no StreamMagicMessage
OtherText == DataMsg("", "")

\* A user who may send Deactivate, and a streamer that sends texts
FullUiActions == {Deactivate}

FullInit ==
    /\ StreamerStart
    /\ store = "h1"
    /\ ui_budget = MaxUiActions
    /\ ui_inflight = <<>>
    /\ env_budget = [NoFeed EXCEPT !.frames = MaxTexts]
    /\ AmpInit

FullNext ==
    \/ MgrInitialize
    \/ MgrDeactivate
    \/ MgrSetIsDiscovering
    \/ MgrJoinDone
    \/ MgrClientConnected
    \/ MgrClientDisconnected
    \/ MgrClientConnecting
    \/ MgrClientDataMsg
    \/ \E k \in Slots : ~Blocked(k) /\ SessConnecting(k)
    \/ \E k \in Slots : ~Blocked(k) /\ SessConnectOk(k)
    \/ \E k \in Slots : ~Blocked(k) /\ SessDataMsg(k)
    \/ \E k \in Slots : ~Blocked(k) /\ SessShutDown(k)
    \/ \E k \in Slots : ~Blocked(k) /\ SessText(k, OtherText)
    \/ \E k \in Slots : ~Blocked(k) /\ SessEnd(k)
    \/ \E k \in 1..MaxDiscoveries : DiscoverEnd(k)
    \/ \E action \in FullUiActions : UiSend(action)

FullSpec == FullInit /\ [][FullNext]_vars

\* FullSpec with a scheduler that lets a session that can take a step
\* take one, and the manager get the join handle of a finished task
FullLiveSpec ==
    /\ FullSpec
    /\ WF_vars(MgrJoinDone)
    /\ \A k \in Slots :
          /\ WF_vars(~Blocked(k) /\ SessConnecting(k))
          /\ WF_vars(~Blocked(k) /\ SessConnectOk(k))
          /\ WF_vars(~Blocked(k) /\ SessDataMsg(k))
          /\ WF_vars(~Blocked(k) /\ SessShutDown(k))
          /\ WF_vars(~Blocked(k) /\ SessEnd(k))

\* C36: a manager that has sent ShutDown to its session and awaits the join
\* handle gets it: the wait always ends (the statement, which the code does
\* not meet).
C36_StopTerminates == (mgr_pc = "join") ~> (mgr_pc # "join")


---------------------------------------------------------------------------
(* DisconnectFromAmplifier, which no command of the program sends *)

AmpDisconnectFromAmplifier == AmpAction("DisconnectFromAmplifier", FALSE, NoAmplifier)

\* The DisconnectFromAmplifier arm: stop_amplifier_handler()
AmpMgrDisconnectFromAmplifier ==
    /\ AmpReceive("DisconnectFromAmplifier")
    /\ LET c == stop_amplifier_handler(AmpCtx)
       IN  IF AmpJoined(AmpCtx)
           THEN AmpLeave(AmpDone(c))
           ELSE AmpLeave(AmpAwait(AmpCtx, c, "disconnect", NoAmplifier))

\* A holder of the manager's channel sends DisconnectFromAmplifier
AmpSendDisconnect ==
    /\ amp_ui_budget > 0
    /\ amp_ui_budget' = amp_ui_budget - 1
    /\ AmpSend(AmpDisconnectFromAmplifier)
    /\ UNCHANGED <<amp, amp_pc, amp_cont, amp_handled, handlers, amp_discoveries,
                   amp_fault_budget, streamer_vars, hegel_vars>>

\* The amplifier side with such a sender
DisconnectNext ==
    \/ AmpNext
    \/ AmpMgrDisconnectFromAmplifier
    \/ AmpSendDisconnect

DisconnectSpec == Init /\ [][DisconnectNext]_vars

\* The manager's step gives it the join handle of a new handler task
HandlerSpawned ==
    /\ amp'.amp_handler_join_handle # 0
    /\ amp'.amp_handler_join_handle # amp.amp_handler_join_handle

---------------------------------------------------------------------------
\* C38: whenever the manager's is_activating is false, no device of its
\* list has is_activating = true (the statement, which the code does not
\* meet).
C38_NoDeviceActivating ==
    ~mgr.is_activating =>
        \A i \in DOMAIN mgr.devices : ~mgr.devices[i].is_activating


---------------------------------------------------------------------------
(* The order of the messages of one WebSocketClient *)

\* The step puts a message of the session into its channel to the manager
SessSends(k) == Len(sessions'[k].tx) = Len(sessions[k].tx) + 1

SentMsg(k) == sessions'[k].tx[Len(sessions'[k].tx)]

\* The message is a WebSocketClientStatusMsg of this state
SendsStatus(k, state) ==
    /\ SessSends(k)
    /\ SentMsg(k).type = "status"
    /\ SentMsg(k).status.state = state

\* C39: the messages of one session are well ordered.  Connecting is the
\* first message; Connected{existing: false} is sent only directly after
\* Connecting, so at most once; TestingConnection is sent only after a
\* Connected; Connected{existing: true} is sent only while the status is
\* TestingConnection; and a Disconnected is the last message, so sent at most
\* once.
C39_StatusOrder ==
    [][\A k \in Slots :
        /\ SessSends(k) /\ sessions[k].phase = "spawned"
              => SentMsg(k) = WebSocketClientStatusMsg(Connecting(sessions[k].url))
        /\ SendsStatus(k, "Connecting")
              => sessions[k].phase = "spawned" /\ sessions'[k].phase = "connecting"
        /\ SendsStatus(k, "Connected") /\ ~SentMsg(k).status.existing
              => /\ sessions[k].phase = "connecting"
                 /\ sessions[k].status.state = "Connecting"
                 /\ sessions'[k].phase = "running"
        /\ SendsStatus(k, "TestingConnection")
              => /\ sessions[k].phase = "running"
                 /\ sessions[k].status.state \in {"Connected", "TestingConnection"}
        /\ SendsStatus(k, "Connected") /\ SentMsg(k).status.existing
              => /\ sessions[k].phase = "running"
                 /\ sessions[k].status.state = "TestingConnection"
        /\ SendsStatus(k, "Disconnected")
              => sessions'[k].phase = "returned"
        /\ SessSends(k)
              => sessions[k].phase \in {"spawned", "connecting", "running"}
      ]_vars

\* A session that was tested has come to its end: it has sent Connecting,
\* Connected, TestingConnection and now, as its last message, Disconnected
C39_Witness ==
    \E k \in Slots :
        /\ sessions[k].phase = "returned"
        /\ sessions[k].tx # <<>>
        /\ sessions[k].tx[Len(sessions[k].tx)] =
              WebSocketClientStatusMsg(
                  Disconnected("WebSocketClient test failed (pong timeout)", TRUE))


---------------------------------------------------------------------------
(* The commands of the UI: each spawns the task that sends its action *)

\* Commands the user gives
MaxCommands == 2

CommandUiActions ==
    {Deactivate, TestConnection}
    \cup {StopWebSocketClient(remove) : remove \in BOOLEAN}

\* A Tauri command: send_manager_action! spawns the task that is to send the
\* action, and the command returns
UiCommand(action) ==
    /\ ui_budget > 0
    /\ ui_budget' = ui_budget - 1
    /\ ui_inflight' = Append(ui_inflight, action)
    /\ UNCHANGED <<mgr, mgr_pc, mgr_cont, handled, inbox, sessions, hce_inflight,
                   discoveries, store, ui_udns, fault_budget, env_budget,
                   amp_vars, hegel_vars>>

\* The runtime polls one of the spawned tasks: send_manager_action_impl sends
\* the action, which fails (and is only logged) once run() has left its loop
UiSpawnedSend(i) ==
    /\ i \in DOMAIN ui_inflight
    /\ inbox' = IF mgr_pc = "ended" THEN inbox ELSE Append(inbox, ui_inflight[i])
    /\ ui_inflight' = [j \in 1..(Len(ui_inflight) - 1) |->
                          IF j < i THEN ui_inflight[j] ELSE ui_inflight[j + 1]]
    /\ UNCHANGED <<mgr, mgr_pc, mgr_cont, handled, sessions, hce_inflight,
                   discoveries, store, ui_udns, ui_budget, fault_budget,
                   env_budget, amp_vars, hegel_vars>>

\* An installation that has connected to h1 before, with a user who gives
\* MaxCommands commands
CommandInit ==
    /\ StreamerStart
    /\ store = "h1"
    /\ ui_budget = MaxCommands
    /\ ui_inflight = <<>>
    /\ env_budget = NoFeed
    /\ AmpInit

CommandNext ==
    \/ MgrInitialize
    \/ MgrDeactivate
    \/ MgrSetIsDiscovering
    \/ MgrStopWebSocketClient
    \/ MgrTestConnection
    \/ MgrJoinDone
    \/ MgrClientConnected
    \/ MgrClientDisconnected
    \/ MgrClientConnecting
    \/ MgrClientTestingConnection
    \/ \E k \in Slots : SessConnecting(k)
    \/ \E k \in Slots : SessConnectOk(k)
    \/ \E k \in Slots : SessDataMsg(k)
    \/ \E k \in Slots : SessShutDown(k)
    \/ \E k \in Slots, ping_sent \in BOOLEAN : SessTestConnection(k, ping_sent)
    \/ \E k \in Slots : SessPong(k)
    \/ \E k \in Slots : SessEnd(k)
    \/ \E k \in 1..MaxDiscoveries : DiscoverEnd(k)
    \/ \E action \in CommandUiActions : UiCommand(action)
    \/ \E i \in 1..MaxCommands : UiSpawnedSend(i)

CommandSpec == CommandInit /\ [][CommandNext]_vars

\* C40: the actions of the commands reach the manager's channel in the
\* order the commands were given: the task that sends is the one spawned
\* first of those yet to send (the statement, which the code does not
\* meet).
C40_IssueOrder ==
    [][Len(ui_inflight') < Len(ui_inflight) /\ inbox' # inbox
          => inbox' = Append(inbox, Head(ui_inflight))]_vars

===========================================================================
